---------------------------- MODULE Spec2Model ----------------------------
(***************************************************************************)
(* A model of libs/astrict/src/FromGlsl.cpp: the lowering of a glslang     *)
(* AST into the interned PackFromGlsl.  The two interning stores, the      *)
(* type / operator mapping and the recursive descent of Slurper are        *)
(* operators over explicit table values; one lowering pass is the state    *)
(* machine Spec, and the stores on their own are the state machine         *)
(* StoreSpec.                                                              *)
(***************************************************************************)
EXTENDS Integers, Sequences, FiniteSets, TLC

VARIABLES
    root,                             \* intermediate.getTreeRoot()
    mVersion,                         \* Slurper::mVersion
    pc,                               \* where the pass is
    linkerObjectNodes,                \* slurpFromRoot's three buckets
    sequenceNodes,
    functionNodes,
    mStrings,                         \* IdStoreByValue<StringId, string>
    mTypes,                           \* IdStoreByValue<TypeId, Type>
    mGlobalSymbols,                   \* IdStoreByKey<GlobalSymbolId, Symbol>
    mRValues,                         \* IdStoreByValue<RValueId, RValue>
    mFunctionNames,                   \* IdStoreByValue<FunctionId, string>
    mStatementBlocks,                 \* IdStoreByValue<StatementBlockId, ..>
    mFunctionDefinitions,             \* unordered_map<FunctionId, FunctionDefinition>
    mFunctionPrototypes,              \* set<FunctionId>
    mGlobalSymbolDefinitionsInOrder,  \* vector<tuple<GlobalSymbolId, ValueId>>
    mFunctionDefinitionsInOrder,      \* vector<FunctionId>
    pack,                             \* what fromGlsl returns
    previous,                         \* what an earlier fromGlsl on root returned
    byValue,                          \* StoreSpec: a by-value store
    byKey,                            \* StoreSpec: a by-key store
    calls,                            \* StoreSpec: the calls made, with results
    localSymbolsOfFunction,           \* LowerSpec: the LocalSymbols passed down
    lowered                           \* LowerSpec: the lowerings made, with results

passVars == <<root, mVersion, pc, linkerObjectNodes, sequenceNodes, functionNodes,
              mStrings, mTypes, mGlobalSymbols, mRValues, mFunctionNames,
              mStatementBlocks, mFunctionDefinitions, mFunctionPrototypes,
              mGlobalSymbolDefinitionsInOrder, mFunctionDefinitionsInOrder, pack,
              previous>>
storeVars == <<byValue, byKey, calls>>
lowerVars == <<localSymbolsOfFunction, lowered>>
vars == <<passVars, storeVars, lowerVars>>

(***************************************************************************)
(* Bounds of the model.                                                    *)
(***************************************************************************)
MaxRootChildren == 3     \* children of the root sequence
MaxCalls == 4            \* store calls in StoreSpec
MaxLowered == 2          \* lowerings in LowerSpec

(***************************************************************************)
(* std::optional<T>: the empty sequence or a one-element sequence.         *)
(***************************************************************************)
nullopt == << >>
Some(x) == <<x>>
has_value(o) == Len(o) = 1
value(o) == o[1]

(***************************************************************************)
(* IdStoreByValue                                                          *)
(***************************************************************************)
NewStore == [mLastId |-> 0, mMap |-> << >>]

\* Faulty variants of insert: one that never looks the value up, and one
\* that advances mLastId before it does.
IdStoreByValue_insertNoFind(store, v) ==
    [store |-> [mLastId |-> store.mLastId + 1,
                mMap |-> (v :> store.mLastId + 1) @@ store.mMap],
     id |-> store.mLastId + 1]

IdStoreByValue_insertEagerId(store, v) ==
    IF v \in DOMAIN store.mMap
    THEN [store |-> [store EXCEPT !.mLastId = @ + 1], id |-> store.mMap[v]]
    ELSE [store |-> [mLastId |-> store.mLastId + 1,
                     mMap |-> (v :> store.mLastId + 1) @@ store.mMap],
          id |-> store.mLastId + 1]

IdStoreByValue_insert(store, v) ==
    IF v \in DOMAIN store.mMap
    THEN [store |-> store, id |-> store.mMap[v]]
    ELSE LET id == store.mLastId + 1
         IN [store |-> [mLastId |-> id, mMap |-> (v :> id) @@ store.mMap],
             id |-> id]

IdStoreByValue_getFinal(store) ==
    [id \in {store.mMap[v] : v \in DOMAIN store.mMap} |->
        CHOOSE v \in DOMAIN store.mMap : store.mMap[v] = id]

(***************************************************************************)
(* IdStoreByKey: mMap maps a key to the pair (id, value).                  *)
(***************************************************************************)
\* A faulty variant of insert: a repeated key keeps its id but takes the
\* new value.
IdStoreByKey_insertOverwrite(store, key, v) ==
    IF key \in DOMAIN store.mMap
    THEN [store |-> [store EXCEPT !.mMap[key].second = v],
          id |-> store.mMap[key].first]
    ELSE [store |-> [mLastId |-> store.mLastId + 1,
                     mMap |-> (key :> [first |-> store.mLastId + 1, second |-> v])
                              @@ store.mMap],
          id |-> store.mLastId + 1]

IdStoreByKey_insert(store, key, v) ==
    IF key \in DOMAIN store.mMap
    THEN [store |-> store, id |-> store.mMap[key].first]
    ELSE LET id == store.mLastId + 1
         IN [store |-> [mLastId |-> id,
                        mMap |-> (key :> [first |-> id, second |-> v]) @@ store.mMap],
             id |-> id]

\* get(key): the store as get leaves it, and the id it returns (if any).
IdStoreByKey_get(store, key) ==
    IF key \in DOMAIN store.mMap
    THEN [store |-> store, id |-> Some(store.mMap[key].first)]
    ELSE [store |-> store, id |-> nullopt]

IdStoreByKey_getFinal(store) ==
    [id \in {store.mMap[k].first : k \in DOMAIN store.mMap} |->
        store.mMap[CHOOSE k \in DOMAIN store.mMap : store.mMap[k].first = id].second]

IdStoreByKey_empty(store) == DOMAIN store.mMap = {}


(***************************************************************************)
(* The input: glslang's TType, reduced to what the lowering reads.         *)
(***************************************************************************)
NoQualifier ==
    [invariant |-> FALSE, flat |-> FALSE, nopersp |-> FALSE, smooth |-> FALSE,
     hasLayout |-> FALSE, isConstant |-> FALSE, precision |-> "EpqNone",
     builtIn |-> FALSE]

NoSampler == [dim |-> "EsdNone", shadow |-> FALSE, string |-> ""]

TType(basicType, vectorSize) ==
    [basicType |-> basicType, vectorSize |-> vectorSize,
     matrixCols |-> 0, matrixRows |-> 0, qualifier |-> NoQualifier,
     arraySizes |-> << >>, typeName |-> "", sampler |-> NoSampler]

isMatrix(type) == type.matrixCols > 0
isVector(type) == type.vectorSize > 1
isArray(type) == Len(type.arraySizes) > 0
isBuiltIn(type) == type.qualifier.builtIn

(***************************************************************************)
(* The lowering state threaded through the recursive descent: the six      *)
(* tables of the Slurper, the LocalSymbols passed by reference, and ok,    *)
(* which is FALSE once a precondition has panicked.  Every operator        *)
(* returns [s |-> the state after it, v |-> its result].                   *)
(***************************************************************************)
Ret(s, v) == [s |-> s, v |-> v]
Void == << >>
Panic(s) == Ret([s EXCEPT !.ok = FALSE], Void)

(***************************************************************************)
(* Bind(v, F) is F(v), with v computed once: the results of the lowering   *)
(* steps are bound by it, one after the other, as the statements of the    *)
(* source bind them.                                                       *)
(***************************************************************************)
Bind(v, F(_)) == CHOOSE r \in {F(x) : x \in {v}} : TRUE

(***************************************************************************)
(* slurpQualifiers                                                         *)
(***************************************************************************)
QualifierString(qualifier) ==
    (IF qualifier.invariant THEN "invariant " ELSE "")
    \o (IF qualifier.flat THEN "flat " ELSE "")
    \o (IF qualifier.nopersp THEN "noperspective " ELSE "")
    \o (IF qualifier.smooth THEN "smooth " ELSE "")
    \o (IF qualifier.hasLayout THEN "layout(" \o ") " ELSE "")
    \o (IF qualifier.isConstant THEN "const " ELSE "")
    \o (CASE qualifier.precision = "EpqLow" -> "lowp "
          [] qualifier.precision = "EpqMedium" -> "mediump "
          [] qualifier.precision = "EpqHigh" -> "highp "
          [] OTHER -> "")

slurpQualifiers(s, qualifier) ==
    Bind(QualifierString(qualifier), LAMBDA str :
    IF str # ""
    THEN Bind(IdStoreByValue_insert(s.mStrings, str), LAMBDA r :
         Ret([s EXCEPT !.mStrings = r.store], Some(r.id)))
    ELSE Ret(s, nullopt))

(***************************************************************************)
(* slurpType and its name tables                                           *)
(***************************************************************************)
FLOAT_TYPE_NAMES ==
    <<"float", "vec2", "vec3", "vec4", "mat2", "mat2x3", "mat2x4", "mat3x2",
      "mat3", "mat3x4", "mat4x2", "mat4x3", "mat4">>
DOUBLE_TYPE_NAMES ==
    <<"double", "dvec2", "dvec3", "dvec4", "dmat2", "dmat2x3", "dmat2x4",
      "dmat3x2", "dmat3", "dmat3x4", "dmat4x2", "dmat4x3", "dmat4">>
INT_TYPE_NAMES == <<"int", "ivec2", "ivec3", "ivec4">>
UINT_TYPE_NAMES == <<"uint", "uvec2", "uvec3", "uvec4">>
BOOL_TYPE_NAMES == <<"bool", "bvec2", "bvec3", "bvec4">>

\* typeNames[i] of the C array is typeNames[i + 1] of the sequence.
\* The result is [ok |-> the preconditions held, name |-> the entry].
expandTypeNameToVector(typeNames, vectorSize) ==
    IF vectorSize >= 1 /\ vectorSize <= 4
    THEN [ok |-> TRUE, name |-> typeNames[(vectorSize - 1) + 1]]
    ELSE [ok |-> FALSE, name |-> ""]

\* A faulty variant: the matrix entries are taken row by row.
expandTypeNameToVectorOrMatrixByRows(typeNames, matrix, vectorSize, matrixCols, matrixRows) ==
    IF matrix
    THEN IF /\ matrixCols >= 2 /\ matrixCols <= 4
            /\ matrixRows >= 2 /\ matrixRows <= 4
         THEN [ok |-> TRUE,
               name |-> typeNames[(4 + (matrixRows - 2) * 3 + (matrixCols - 2)) + 1]]
         ELSE [ok |-> FALSE, name |-> ""]
    ELSE expandTypeNameToVector(typeNames, vectorSize)

expandTypeNameToVectorOrMatrix(typeNames, matrix, vectorSize, matrixCols, matrixRows) ==
    IF matrix
    THEN IF /\ matrixCols >= 2 /\ matrixCols <= 4
            /\ matrixRows >= 2 /\ matrixRows <= 4
         THEN [ok |-> TRUE,
               name |-> typeNames[(4 + (matrixCols - 2) * 3 + (matrixRows - 2)) + 1]]
         ELSE [ok |-> FALSE, name |-> ""]
    ELSE expandTypeNameToVector(typeNames, vectorSize)

TypeName(type) ==
    CASE type.basicType = "EbtVoid" -> [ok |-> TRUE, name |-> "void"]
      [] type.basicType = "EbtFloat" ->
            expandTypeNameToVectorOrMatrix(FLOAT_TYPE_NAMES, isMatrix(type),
                type.vectorSize, type.matrixCols, type.matrixRows)
      [] type.basicType = "EbtDouble" ->
            expandTypeNameToVectorOrMatrix(DOUBLE_TYPE_NAMES, isMatrix(type),
                type.vectorSize, type.matrixCols, type.matrixRows)
      [] type.basicType = "EbtInt" ->
            expandTypeNameToVector(INT_TYPE_NAMES, type.vectorSize)
      [] type.basicType = "EbtUint" ->
            expandTypeNameToVector(UINT_TYPE_NAMES, type.vectorSize)
      [] type.basicType = "EbtBool" ->
            expandTypeNameToVector(BOOL_TYPE_NAMES, type.vectorSize)
      [] type.basicType = "EbtAtomicUint" -> [ok |-> TRUE, name |-> "atomic_uint"]
      [] type.basicType = "EbtSampler" -> [ok |-> TRUE, name |-> type.sampler.string]
      [] type.basicType \in {"EbtStruct", "EbtBlock"} ->
            [ok |-> TRUE, name |-> type.typeName]
      [] OTHER -> [ok |-> FALSE, name |-> ""]

Type(name, qualifiers, arraySizes) ==
    [name |-> name, qualifiers |-> qualifiers, arraySizes |-> arraySizes]

slurpType(s, type) ==
    IF ~s.ok THEN Ret(s, Void) ELSE
    Bind(TypeName(type), LAMBDA typeName :
    IF ~typeName.ok THEN Panic(s) ELSE
    Bind(IdStoreByValue_insert(s.mStrings, typeName.name), LAMBDA n :
    Bind(slurpQualifiers([s EXCEPT !.mStrings = n.store], type.qualifier), LAMBDA q :
    Bind(IdStoreByValue_insert(q.s.mTypes, Type(n.id, q.v, type.arraySizes)), LAMBDA t :
    Ret([q.s EXCEPT !.mTypes = t.store], t.id)))))

Symbol(name, type) == [name |-> name, type |-> type]

(***************************************************************************)
(* slurpGlobalSymbol                                                       *)
(***************************************************************************)
slurpGlobalSymbol(s, node) ==
    IF ~s.ok THEN Ret(s, Void) ELSE
    Bind(slurpType(s, node.type), LAMBDA typeId :
    IF ~typeId.s.ok THEN Ret(typeId.s, Void) ELSE
    Bind(IdStoreByValue_insert(typeId.s.mStrings, node.accessName), LAMBDA nameId :
    Bind(IdStoreByKey_insert(typeId.s.mGlobalSymbols, node.id,
                             Symbol(nameId.id, Some(typeId.v))), LAMBDA g :
    Ret([typeId.s EXCEPT !.mStrings = nameId.store, !.mGlobalSymbols = g.store],
        g.id))))

(***************************************************************************)
(* Operator mapping.  A result is [RValueOperator |-> tag] or              *)
(* [string |-> builtin function name].                                     *)
(***************************************************************************)
Tag(t) == [RValueOperator |-> t]
Name(n) == [string |-> n]

\* A faulty variant: the ARB/EXT suffix is appended for every version.
textureFunctionNameForSamplerWithExtension(suffix, arbOrExt, version, arg1Type) ==
    IF version > 100
    THEN [ok |-> TRUE, name |-> "texture" \o suffix \o arbOrExt]
    ELSE IF ~has_value(arg1Type) THEN [ok |-> FALSE, name |-> ""]
    ELSE LET sampler == value(arg1Type).sampler
             result == IF sampler.shadow THEN "shadow" ELSE "texture"
             dim == CASE sampler.dim = "Esd1D" -> "1D"
                      [] sampler.dim = "Esd2D" -> "2D"
                      [] sampler.dim = "Esd3D" -> "3D"
                      [] sampler.dim = "EsdCube" -> "Cube"
                      [] sampler.dim = "EsdRect" -> "2DRect"
                      [] OTHER -> ""
         IN IF dim = "" THEN [ok |-> FALSE, name |-> ""]
            ELSE [ok |-> TRUE, name |-> result \o dim \o suffix \o arbOrExt]

textureFunctionNameForSampler(suffix, arbOrExt, version, arg1Type) ==
    IF version > 100
    THEN [ok |-> TRUE, name |-> "texture" \o suffix]
    ELSE IF ~has_value(arg1Type) THEN [ok |-> FALSE, name |-> ""]
    ELSE LET sampler == value(arg1Type).sampler
             result == IF sampler.shadow THEN "shadow" ELSE "texture"
             dim == CASE sampler.dim = "Esd1D" -> "1D"
                      [] sampler.dim = "Esd2D" -> "2D"
                      [] sampler.dim = "Esd3D" -> "3D"
                      [] sampler.dim = "EsdCube" -> "Cube"
                      [] sampler.dim = "EsdRect" -> "2DRect"
                      [] OTHER -> ""
         IN IF dim = "" THEN [ok |-> FALSE, name |-> ""]
            ELSE [ok |-> TRUE, name |-> result \o dim \o suffix \o arbOrExt]

RECURSIVE Brackets(_)
Brackets(numDims) == IF numDims = 0 THEN "" ELSE "[]" \o Brackets(numDims - 1)

constructorFunctionNameForType(name, returnType) ==
    IF ~isArray(returnType) THEN name
    ELSE name \o Brackets(Len(returnType.arraySizes))

\* The operators of the switch that the model's inputs use; every other
\* operator of the switch maps to a fixed tag or name in the same way.
FixedTag ==
    [EOpNegative |-> "Negative", EOpLogicalNot |-> "LogicalNot",
     EOpBitwiseNot |-> "BitwiseNot",
     EOpPostIncrement |-> "PostIncrement", EOpPostDecrement |-> "PostDecrement",
     EOpPreIncrement |-> "PreIncrement", EOpPreDecrement |-> "PreDecrement",
     EOpAdd |-> "Add", EOpSub |-> "Sub", EOpMul |-> "Mul",
     EOpVectorTimesScalar |-> "Mul", EOpVectorTimesMatrix |-> "Mul",
     EOpMatrixTimesVector |-> "Mul", EOpMatrixTimesScalar |-> "Mul",
     EOpDiv |-> "Div", EOpMod |-> "Mod",
     EOpRightShift |-> "RightShift", EOpLeftShift |-> "LeftShift",
     EOpAnd |-> "And", EOpInclusiveOr |-> "InclusiveOr",
     EOpExclusiveOr |-> "ExclusiveOr",
     EOpEqual |-> "Equal", EOpNotEqual |-> "NotEqual",
     EOpLessThan |-> "LessThan", EOpGreaterThan |-> "GreaterThan",
     EOpLessThanEqual |-> "LessThanEqual",
     EOpGreaterThanEqual |-> "GreaterThanEqual",
     EOpComma |-> "Comma", EOpLogicalOr |-> "LogicalOr",
     EOpLogicalXor |-> "LogicalXor", EOpLogicalAnd |-> "LogicalAnd",
     EOpIndexDirect |-> "Index", EOpIndexIndirect |-> "Index",
     EOpIndexDirectStruct |-> "IndexStruct",
     EOpVectorSwizzle |-> "VectorSwizzle",
     EOpConstructStruct |-> "ConstructStruct",
     EOpAssign |-> "Assign", EOpAddAssign |-> "AddAssign",
     EOpSubAssign |-> "SubAssign", EOpMulAssign |-> "MulAssign",
     EOpVectorTimesMatrixAssign |-> "MulAssign",
     EOpVectorTimesScalarAssign |-> "MulAssign",
     EOpMatrixTimesScalarAssign |-> "MulAssign",
     EOpMatrixTimesMatrixAssign |-> "MulAssign",
     EOpDivAssign |-> "DivAssign", EOpModAssign |-> "ModAssign",
     EOpAndAssign |-> "AndAssign", EOpInclusiveOrAssign |-> "InclusiveOrAssign",
     EOpExclusiveOrAssign |-> "ExclusiveOrAssign",
     EOpLeftShiftAssign |-> "LeftShiftAssign",
     EOpRightShiftAssign |-> "RightShiftAssign",
     EOpArrayLength |-> "ArrayLength"]

FixedName ==
    [EOpVectorLogicalNot |-> "not",
     EOpConvIntToBool |-> "bool", EOpConvUintToBool |-> "bool",
     EOpConvFloatToBool |-> "bool", EOpConvDoubleToBool |-> "bool",
     EOpConvBoolToInt |-> "int", EOpConvUintToInt |-> "int",
     EOpConvFloatToInt |-> "int", EOpConvDoubleToInt |-> "int",
     EOpConvBoolToFloat |-> "float", EOpConvIntToFloat |-> "float",
     EOpConvUintToFloat |-> "float", EOpConvDoubleToFloat |-> "float",
     EOpVectorEqual |-> "equal", EOpVectorNotEqual |-> "notEqual",
     EOpRadians |-> "radians", EOpSin |-> "sin", EOpCos |-> "cos",
     EOpPow |-> "pow", EOpSqrt |-> "sqrt", EOpAbs |-> "abs",
     EOpMin |-> "min", EOpMax |-> "max", EOpClamp |-> "clamp", EOpMix |-> "mix",
     EOpEmitVertex |-> "EmitVertex", EOpEndPrimitive |-> "EndPrimitive",
     EOpTextureQuerySize |-> "textureSize",
     EOpTextureOffset |-> "textureOffset", EOpTextureFetch |-> "texelFetch"]

ConstructorName ==
    [EOpConstructInt |-> "int", EOpConstructUint |-> "uint",
     EOpConstructBool |-> "bool", EOpConstructFloat |-> "float",
     EOpConstructDouble |-> "double", EOpConstructVec2 |-> "vec2",
     EOpConstructVec3 |-> "vec3", EOpConstructVec4 |-> "vec4",
     EOpConstructMat2x2 |-> "mat2x2", EOpConstructMat3x3 |-> "mat3x3",
     EOpConstructMat4x4 |-> "mat4x4", EOpConstructIVec2 |-> "ivec2"]

TextureSuffix ==
    [EOpTexture |-> <<"", "">>, EOpTextureProj |-> <<"Proj", "">>,
     EOpTextureLod |-> <<"Lod", "">>, EOpTextureProjLod |-> <<"ProjLod", "">>,
     EOpTextureGrad |-> <<"Grad", "ARB">>,
     EOpTextureProjGrad |-> <<"ProjGrad", "ARB">>]

\* A faulty variant: a compound assignment is given the tag of its base
\* operator.
glslangOperatorToRValueOperatorCollapsing(op, version, returnType, arg1Type) ==
    CASE op \in {"EOpAddAssign"} -> [ok |-> TRUE, v |-> Tag("Add")]
      [] op \in {"EOpSubAssign"} -> [ok |-> TRUE, v |-> Tag("Sub")]
      [] op \in {"EOpMulAssign", "EOpVectorTimesMatrixAssign",
                 "EOpVectorTimesScalarAssign", "EOpMatrixTimesScalarAssign",
                 "EOpMatrixTimesMatrixAssign"} -> [ok |-> TRUE, v |-> Tag("Mul")]
      [] op \in DOMAIN FixedTag -> [ok |-> TRUE, v |-> Tag(FixedTag[op])]
      [] op \in DOMAIN FixedName -> [ok |-> TRUE, v |-> Name(FixedName[op])]
      [] op \in DOMAIN ConstructorName ->
            [ok |-> TRUE,
             v |-> Name(constructorFunctionNameForType(ConstructorName[op], returnType))]
      [] op = "EOpTextureQueryLod" ->
            [ok |-> TRUE,
             v |-> Name(IF version >= 400 THEN "textureQueryLod" ELSE "textureQueryLOD")]
      [] op \in DOMAIN TextureSuffix ->
            LET t == textureFunctionNameForSampler(
                         TextureSuffix[op][1], TextureSuffix[op][2], version, arg1Type)
            IN [ok |-> t.ok, v |-> Name(t.name)]
      [] OTHER -> [ok |-> TRUE, v |-> Tag("Ternary")]

\* A faulty variant: an operator without a case is refused.
glslangOperatorToRValueOperatorAborting(op, version, returnType, arg1Type) ==
    CASE op \in DOMAIN FixedTag -> [ok |-> TRUE, v |-> Tag(FixedTag[op])]
      [] op \in DOMAIN FixedName -> [ok |-> TRUE, v |-> Name(FixedName[op])]
      [] op \in DOMAIN ConstructorName ->
            [ok |-> TRUE,
             v |-> Name(constructorFunctionNameForType(ConstructorName[op], returnType))]
      [] op = "EOpTextureQueryLod" ->
            [ok |-> TRUE,
             v |-> Name(IF version >= 400 THEN "textureQueryLod" ELSE "textureQueryLOD")]
      [] op \in DOMAIN TextureSuffix ->
            LET t == textureFunctionNameForSampler(
                         TextureSuffix[op][1], TextureSuffix[op][2], version, arg1Type)
            IN [ok |-> t.ok, v |-> Name(t.name)]
      [] OTHER -> [ok |-> FALSE, v |-> Tag("Ternary")]

\* [ok |-> FALSE] when a precondition of the mapping panics.
glslangOperatorToRValueOperator(op, version, returnType, arg1Type) ==
    CASE op \in DOMAIN FixedTag -> [ok |-> TRUE, v |-> Tag(FixedTag[op])]
      [] op \in DOMAIN FixedName -> [ok |-> TRUE, v |-> Name(FixedName[op])]
      [] op \in DOMAIN ConstructorName ->
            [ok |-> TRUE,
             v |-> Name(constructorFunctionNameForType(ConstructorName[op], returnType))]
      [] op = "EOpTextureQueryLod" ->
            [ok |-> TRUE,
             v |-> Name(IF version >= 400 THEN "textureQueryLod" ELSE "textureQueryLOD")]
      [] op \in DOMAIN TextureSuffix ->
            LET t == textureFunctionNameForSampler(
                         TextureSuffix[op][1], TextureSuffix[op][2], version, arg1Type)
            IN [ok |-> t.ok, v |-> Name(t.name)]
      [] OTHER -> [ok |-> TRUE, v |-> Tag("Ternary")]

BranchTag ==
    [EOpKill |-> "Discard", EOpTerminateInvocation |-> "TerminateInvocation",
     EOpDemote |-> "Demote", EOpTerminateRayKHR |-> "TerminateRayEXT",
     EOpIgnoreIntersectionKHR |-> "IgnoreIntersectionEXT",
     EOpReturn |-> "Return", EOpBreak |-> "Break", EOpContinue |-> "Continue",
     EOpCase |-> "Case", EOpDefault |-> "Default"]

glslangOperatorToBranchOperator(op) ==
    IF op \in DOMAIN BranchTag
    THEN [ok |-> TRUE, v |-> BranchTag[op]]
    ELSE [ok |-> FALSE, v |-> ""]

(***************************************************************************)
(* constUnionToLiteralRValue: the literal keeps the C++ type of the        *)
(* getter that read it.                                                    *)
(***************************************************************************)
LiteralType ==
    [EbtInt8 |-> "int8_t", EbtUint8 |-> "uint8_t", EbtInt16 |-> "int16_t",
     EbtUint16 |-> "uint16_t", EbtInt |-> "int", EbtUint |-> "unsigned",
     EbtDouble |-> "double", EbtBool |-> "bool"]

LiteralRValue(type, c) == [LiteralRValue |-> [type |-> type, c |-> c]]
EvaluableRValue(op, args) == [op |-> op, args |-> args]

constUnionToLiteralRValue(const) ==
    IF const.type \in DOMAIN LiteralType
    THEN [ok |-> TRUE, v |-> LiteralRValue(LiteralType[const.type], const.c)]
    ELSE [ok |-> FALSE, v |-> Void]

\* The three alternatives of ValueId, and the RValueId alternative of Statement.
GlobalSymbolId(id) == [GlobalSymbolId |-> id]
LocalSymbolId(id) == [LocalSymbolId |-> id]
RValueId(id) == [RValueId |-> id]
IsRValueId(v) == DOMAIN v = {"RValueId"}
IsGlobalSymbolId(v) == DOMAIN v = {"GlobalSymbolId"}
IsLocalSymbolId(v) == DOMAIN v = {"LocalSymbolId"}
FunctionId(id) == [FunctionId |-> id]

(***************************************************************************)
(* slurpOperator                                                           *)
(***************************************************************************)
slurpOperator(s, op, returnType, arg1Type) ==
    IF ~s.ok THEN Ret(s, Void) ELSE
    Bind(glslangOperatorToRValueOperator(op, s.mVersion, returnType, arg1Type),
         LAMBDA opOrFunctionName :
    IF ~opOrFunctionName.ok THEN Panic(s)
    ELSE IF "string" \in DOMAIN opOrFunctionName.v
    THEN Bind(IdStoreByValue_insert(s.mFunctionNames, opOrFunctionName.v.string),
              LAMBDA f :
         Ret([s EXCEPT !.mFunctionNames = f.store], FunctionId(f.id)))
    ELSE Ret(s, opOrFunctionName.v))

(***************************************************************************)
(* The input: glslang's TIntermNode hierarchy.  kind is the class of the   *)
(* node; the getAs...() downcasts test it.  The parent arguments of the    *)
(* source only feed the panic messages and are left out.                   *)
(***************************************************************************)
IntermConstantUnion(constArray, type) ==
    [kind |-> "ConstantUnion", constArray |-> constArray, type |-> type]
IntermSymbol(id, name, accessName, type) ==
    [kind |-> "Symbol", id |-> id, name |-> name, accessName |-> accessName,
     type |-> type]
IntermUnary(op, operand, type) ==
    [kind |-> "Unary", op |-> op, operand |-> operand, type |-> type]
IntermBinary(op, left, right, type) ==
    [kind |-> "Binary", op |-> op, left |-> left, right |-> right, type |-> type]
IntermSelection(condition, trueBlock, falseBlock, type) ==
    [kind |-> "Selection", condition |-> condition, trueBlock |-> trueBlock,
     falseBlock |-> falseBlock, type |-> type]
IntermAggregate(op, name, sequence, type) ==
    [kind |-> "Aggregate", op |-> op, name |-> name, sequence |-> sequence,
     type |-> type]
IntermLoop(test, terminal, testFirst, body) ==
    [kind |-> "Loop", test |-> test, terminal |-> terminal,
     testFirst |-> testFirst, body |-> body]
IntermBranch(flowOp, expression) ==
    [kind |-> "Branch", flowOp |-> flowOp, expression |-> expression]
IntermSwitch(condition, body) ==
    [kind |-> "Switch", condition |-> condition, body |-> body]

getAsConstantUnion(node) == node.kind = "ConstantUnion"
getAsSymbolNode(node) == node.kind = "Symbol"
getAsUnaryNode(node) == node.kind = "Unary"
getAsBinaryNode(node) == node.kind = "Binary"
getAsSelectionNode(node) == node.kind = "Selection"
getAsAggregate(node) == node.kind = "Aggregate"
getAsLoopNode(node) == node.kind = "Loop"
getAsBranchNode(node) == node.kind = "Branch"
getAsSwitchNode(node) == node.kind = "Switch"
getAsTyped(node) ==
    node.kind \in {"ConstantUnion", "Symbol", "Unary", "Binary", "Selection",
                   "Aggregate"}

InsertRValue(s, rvalue) ==
    Bind(IdStoreByValue_insert(s.mRValues, rvalue), LAMBDA r :
    Ret([s EXCEPT !.mRValues = r.store], RValueId(r.id)))

(***************************************************************************)
(* slurpValueFromConstantUnion                                             *)
(***************************************************************************)
\* for (i ...) args[i] = mRValues.insert(constUnionToLiteralRValue(constArray[i]))
RECURSIVE slurpConstArray(_, _, _, _)
slurpConstArray(s, constArray, i, args) ==
    IF ~s.ok \/ i > Len(constArray) THEN Ret(s, args) ELSE
    Bind(constUnionToLiteralRValue(constArray[i]), LAMBDA lit :
    IF ~lit.ok THEN Panic(s) ELSE
    Bind(InsertRValue(s, lit.v), LAMBDA r :
    slurpConstArray(r.s, constArray, i + 1, Append(args, r.v))))

\* A faulty variant: a constant of several values need not be a vector.
slurpValueFromConstantUnionAnyShape(s, node) ==
    Bind(node.constArray, LAMBDA constArray :
    IF Len(constArray) = 0 THEN Panic(s)
    ELSE IF Len(constArray) = 1
    THEN Bind(constUnionToLiteralRValue(constArray[1]), LAMBDA lit :
         IF ~lit.ok THEN Panic(s) ELSE InsertRValue(s, lit.v))
    ELSE IF Len(constArray) \notin {2, 3, 4} THEN Panic(s)
    ELSE Bind(CASE Len(constArray) = 2 -> "vec2"
                [] Len(constArray) = 3 -> "vec3"
                [] Len(constArray) = 4 -> "vec4", LAMBDA functionName :
         Bind(IdStoreByValue_insert(s.mFunctionNames, functionName), LAMBDA f :
         Bind(slurpConstArray([s EXCEPT !.mFunctionNames = f.store],
                              constArray, 1, << >>), LAMBDA args :
         IF ~args.s.ok THEN Ret(args.s, Void)
         ELSE InsertRValue(args.s, EvaluableRValue(FunctionId(f.id), args.v))))))

slurpValueFromConstantUnion(s, node) ==
    Bind(node.constArray, LAMBDA constArray :
    IF Len(constArray) = 0 THEN Panic(s)
    ELSE IF Len(constArray) = 1
    THEN Bind(constUnionToLiteralRValue(constArray[1]), LAMBDA lit :
         IF ~lit.ok THEN Panic(s) ELSE InsertRValue(s, lit.v))
    ELSE IF ~isVector(node.type) THEN Panic(s)
    ELSE IF Len(constArray) \notin {2, 3, 4} THEN Panic(s)
    ELSE Bind(CASE Len(constArray) = 2 -> "vec2"
                [] Len(constArray) = 3 -> "vec3"
                [] Len(constArray) = 4 -> "vec4", LAMBDA functionName :
         Bind(IdStoreByValue_insert(s.mFunctionNames, functionName), LAMBDA f :
         Bind(slurpConstArray([s EXCEPT !.mFunctionNames = f.store],
                              constArray, 1, << >>), LAMBDA args :
         IF ~args.s.ok THEN Ret(args.s, Void)
         ELSE InsertRValue(args.s, EvaluableRValue(FunctionId(f.id), args.v))))))

(***************************************************************************)
(* slurpValueFromSymbol                                                    *)
(***************************************************************************)
\* A faulty variant: the global symbols are not looked up first.
slurpValueFromSymbolWithoutGet(s, node) ==
    Bind(s, LAMBDA s0 :
    Bind(IdStoreByValue_insert(s0.mStrings, node.accessName), LAMBDA nameId :
    Bind([s0 EXCEPT !.mStrings = nameId.store], LAMBDA s1 :
    IF isBuiltIn(node.type)
    THEN Bind(IdStoreByKey_insert(s1.mGlobalSymbols, node.id,
                                  Symbol(nameId.id, nullopt)), LAMBDA g :
         Ret([s1 EXCEPT !.mGlobalSymbols = g.store], GlobalSymbolId(g.id)))
    ELSE Bind(slurpType(s1, node.type), LAMBDA typeId :
         IF ~typeId.s.ok THEN Ret(typeId.s, Void) ELSE
         Bind(IdStoreByKey_insert(typeId.s.localSymbols, node.id,
                                  Symbol(nameId.id, Some(typeId.v))), LAMBDA l :
         Ret([typeId.s EXCEPT !.localSymbols = l.store], LocalSymbolId(l.id)))))))

\* A faulty variant: a symbol that is not global is registered as a global
\* symbol with its type, built-in or not.
slurpValueFromSymbolAlwaysGlobal(s, node) ==
    Bind(IdStoreByKey_get(s.mGlobalSymbols, node.id), LAMBDA globalId :
    Bind([s EXCEPT !.mGlobalSymbols = globalId.store], LAMBDA s0 :
    IF has_value(globalId.id) THEN Ret(s0, GlobalSymbolId(value(globalId.id))) ELSE
    Bind(IdStoreByValue_insert(s0.mStrings, node.accessName), LAMBDA nameId :
    Bind([s0 EXCEPT !.mStrings = nameId.store], LAMBDA s1 :
    Bind(slurpType(s1, node.type), LAMBDA typeId :
    IF ~typeId.s.ok THEN Ret(typeId.s, Void) ELSE
    Bind(IdStoreByKey_insert(typeId.s.mGlobalSymbols, node.id,
                             Symbol(nameId.id, Some(typeId.v))), LAMBDA g :
    Ret([typeId.s EXCEPT !.mGlobalSymbols = g.store], GlobalSymbolId(g.id))))))))

\* A faulty variant: a local symbol gets the id of its declaration, which is
\* unique in the program.
slurpValueFromSymbolByDeclaration(s, node) ==
    Bind(IdStoreByKey_get(s.mGlobalSymbols, node.id), LAMBDA globalId :
    Bind([s EXCEPT !.mGlobalSymbols = globalId.store], LAMBDA s0 :
    IF has_value(globalId.id) THEN Ret(s0, GlobalSymbolId(value(globalId.id))) ELSE
    Bind(IdStoreByValue_insert(s0.mStrings, node.accessName), LAMBDA nameId :
    Bind([s0 EXCEPT !.mStrings = nameId.store], LAMBDA s1 :
    IF isBuiltIn(node.type)
    THEN Bind(IdStoreByKey_insert(s1.mGlobalSymbols, node.id,
                                  Symbol(nameId.id, nullopt)), LAMBDA g :
         Ret([s1 EXCEPT !.mGlobalSymbols = g.store], GlobalSymbolId(g.id)))
    ELSE Bind(slurpType(s1, node.type), LAMBDA typeId :
         IF ~typeId.s.ok THEN Ret(typeId.s, Void) ELSE
         Bind(IdStoreByKey_insert(typeId.s.localSymbols, node.id,
                                  Symbol(nameId.id, Some(typeId.v))), LAMBDA l :
         Ret([typeId.s EXCEPT !.localSymbols = l.store], LocalSymbolId(node.id))))))))

slurpValueFromSymbol(s, node) ==
    Bind(IdStoreByKey_get(s.mGlobalSymbols, node.id), LAMBDA globalId :
    Bind([s EXCEPT !.mGlobalSymbols = globalId.store], LAMBDA s0 :
    IF has_value(globalId.id) THEN Ret(s0, GlobalSymbolId(value(globalId.id))) ELSE
    Bind(IdStoreByValue_insert(s0.mStrings, node.accessName), LAMBDA nameId :
    Bind([s0 EXCEPT !.mStrings = nameId.store], LAMBDA s1 :
    IF isBuiltIn(node.type)
    THEN Bind(IdStoreByKey_insert(s1.mGlobalSymbols, node.id,
                                  Symbol(nameId.id, nullopt)), LAMBDA g :
         Ret([s1 EXCEPT !.mGlobalSymbols = g.store], GlobalSymbolId(g.id)))
    ELSE Bind(slurpType(s1, node.type), LAMBDA typeId :
         IF ~typeId.s.ok THEN Ret(typeId.s, Void) ELSE
         Bind(IdStoreByKey_insert(typeId.s.localSymbols, node.id,
                                  Symbol(nameId.id, Some(typeId.v))), LAMBDA l :
         Ret([typeId.s EXCEPT !.localSymbols = l.store], LocalSymbolId(l.id))))))))

(***************************************************************************)
(* slurpValue and the per-kind lowerings it dispatches to                  *)
(***************************************************************************)
RECURSIVE slurpValue(_, _)
RECURSIVE slurpArgs(_, _, _, _)
RECURSIVE slurpValueFromUnary(_, _)
RECURSIVE slurpValueFromBinary(_, _)
RECURSIVE slurpValueFromSelection(_, _)
RECURSIVE slurpValueFromFunctionCall(_, _)
RECURSIVE slurpValueFromAggregate(_, _)

\* The argument loop of slurpValueFromFunctionCall and slurpValueFromAggregate.
slurpArgs(s, sequence, i, args) ==
    IF ~s.ok \/ i > Len(sequence) THEN Ret(s, args)
    ELSE IF getAsTyped(sequence[i])
    THEN Bind(slurpValue(s, sequence[i]), LAMBDA r :
         slurpArgs(r.s, sequence, i + 1, Append(args, r.v)))
    ELSE Panic(s)

slurpValueFromUnary(s, node) ==
    Bind(slurpValue(s, node.operand), LAMBDA operandId :
    Bind(slurpOperator(operandId.s, node.op, node.type, Some(node.operand.type)),
         LAMBDA op :
    IF ~op.s.ok THEN Ret(op.s, Void)
    ELSE InsertRValue(op.s, EvaluableRValue(op.v, <<operandId.v>>))))

\* A faulty variant: the base of a swizzle is lowered and passed on.
slurpValueFromBinaryLoweringBase(s, node) ==
    IF node.op = "EOpVectorSwizzle"
    THEN Bind(node.right, LAMBDA swizzle :
         IF ~getAsAggregate(swizzle) THEN Panic(s)
         ELSE IF swizzle.op # "EOpSequence" THEN Panic(s)
         ELSE Bind(slurpValue(s, node.left), LAMBDA lhsId :
              IF ~lhsId.s.ok THEN Ret(lhsId.s, Void)
              ELSE InsertRValue(lhsId.s,
                       EvaluableRValue(Tag("VectorSwizzle"), <<lhsId.v>>))))
    ELSE Bind(slurpValue(s, node.left), LAMBDA lhsId :
         Bind(slurpValue(lhsId.s, node.right), LAMBDA rhsId :
         Bind(slurpOperator(rhsId.s, node.op, node.type, Some(node.left.type)),
              LAMBDA op :
         IF ~op.s.ok THEN Ret(op.s, Void)
         ELSE InsertRValue(op.s, EvaluableRValue(op.v, <<lhsId.v, rhsId.v>>)))))

\* A faulty variant: the right operand is lowered before the left one.
slurpValueFromBinaryRightFirst(s, node) ==
    IF node.op = "EOpVectorSwizzle"
    THEN Bind(node.right, LAMBDA swizzle :
         IF ~getAsAggregate(swizzle) THEN Panic(s)
         ELSE IF swizzle.op # "EOpSequence" THEN Panic(s)
         ELSE InsertRValue(s, EvaluableRValue(Tag("VectorSwizzle"), << >>)))
    ELSE Bind(slurpValue(s, node.right), LAMBDA rhsId :
         Bind(slurpValue(rhsId.s, node.left), LAMBDA lhsId :
         Bind(slurpOperator(lhsId.s, node.op, node.type, Some(node.left.type)),
              LAMBDA op :
         IF ~op.s.ok THEN Ret(op.s, Void)
         ELSE InsertRValue(op.s, EvaluableRValue(op.v, <<lhsId.v, rhsId.v>>)))))

slurpValueFromBinary(s, node) ==
    IF node.op = "EOpVectorSwizzle"
    THEN Bind(node.right, LAMBDA swizzle :
         IF ~getAsAggregate(swizzle) THEN Panic(s)
         ELSE IF swizzle.op # "EOpSequence" THEN Panic(s)
         ELSE InsertRValue(s, EvaluableRValue(Tag("VectorSwizzle"), << >>)))
    ELSE Bind(slurpValue(s, node.left), LAMBDA lhsId :
         Bind(slurpValue(lhsId.s, node.right), LAMBDA rhsId :
         Bind(slurpOperator(rhsId.s, node.op, node.type, Some(node.left.type)),
              LAMBDA op :
         IF ~op.s.ok THEN Ret(op.s, Void)
         ELSE InsertRValue(op.s, EvaluableRValue(op.v, <<lhsId.v, rhsId.v>>)))))

slurpValueFromSelection(s, node) ==
    Bind(slurpValue(s, node.condition), LAMBDA conditionId :
    IF ~conditionId.s.ok THEN Ret(conditionId.s, Void)
    ELSE IF getAsTyped(node.trueBlock) /\ getAsTyped(value(node.falseBlock))
    THEN Bind(slurpValue(conditionId.s, node.trueBlock), LAMBDA trueId :
         Bind(slurpValue(trueId.s, value(node.falseBlock)), LAMBDA falseId :
         IF ~falseId.s.ok THEN Ret(falseId.s, Void)
         ELSE InsertRValue(falseId.s,
                  EvaluableRValue(Tag("Ternary"),
                                  <<conditionId.v, trueId.v, falseId.v>>))))
    ELSE Panic(conditionId.s))

slurpValueFromFunctionCall(s, node) ==
    Bind(IdStoreByValue_insert(s.mFunctionNames, node.name), LAMBDA f :
    Bind(slurpArgs([s EXCEPT !.mFunctionNames = f.store], node.sequence, 1, << >>),
         LAMBDA args :
    IF ~args.s.ok THEN Ret(args.s, Void)
    ELSE InsertRValue(args.s, EvaluableRValue(FunctionId(f.id), args.v))))

slurpValueFromAggregate(s, node) ==
    Bind(slurpArgs(s, node.sequence, 1, << >>), LAMBDA args :
    IF ~args.s.ok THEN Ret(args.s, Void) ELSE
    Bind(IF Len(node.sequence) # 0 THEN Some(node.sequence[1].type) ELSE nullopt,
         LAMBDA firstArgType :
    Bind(slurpOperator(args.s, node.op, node.type, firstArgType), LAMBDA op :
    IF ~op.s.ok THEN Ret(op.s, Void)
    ELSE InsertRValue(op.s, EvaluableRValue(op.v, args.v)))))

slurpValue(s, node) ==
    IF ~s.ok THEN Ret(s, Void)
    ELSE IF getAsConstantUnion(node) THEN slurpValueFromConstantUnion(s, node)
    ELSE IF getAsSymbolNode(node) THEN slurpValueFromSymbol(s, node)
    ELSE IF getAsUnaryNode(node) THEN slurpValueFromUnary(s, node)
    ELSE IF getAsBinaryNode(node) THEN slurpValueFromBinary(s, node)
    ELSE IF getAsSelectionNode(node) THEN slurpValueFromSelection(s, node)
    ELSE IF getAsAggregate(node)
            /\ node.op \notin {"EOpFunction", "EOpLinkerObjects", "EOpParameters",
                               "EOpSequence"}
    THEN IF node.op = "EOpFunctionCall"
         THEN slurpValueFromFunctionCall(s, node)
         ELSE slurpValueFromAggregate(s, node)
    ELSE Panic(s)

(***************************************************************************)
(* Statements.  A Statement is an RValueId or one of the four records.     *)
(***************************************************************************)
IfStatement(condition, thenBlock, elseBlock) ==
    [IfStatement |-> [condition |-> condition, thenBlock |-> thenBlock,
                      elseBlock |-> elseBlock]]
LoopStatement(condition, terminal, testFirst, body) ==
    [LoopStatement |-> [condition |-> condition, terminal |-> terminal,
                        testFirst |-> testFirst, body |-> body]]
SwitchStatement(condition, body) ==
    [SwitchStatement |-> [condition |-> condition, body |-> body]]
BranchStatement(op, operand) ==
    [BranchStatement |-> [op |-> op, operand |-> operand]]

RECURSIVE slurpStatementBlock(_, _)
RECURSIVE nodeToStatements(_, _, _)
RECURSIVE childrenToStatements(_, _, _, _)
RECURSIVE LoopToStatements(_, _, _)
RECURSIVE BranchToStatements(_, _, _)
RECURSIVE SwitchToStatements(_, _, _)
RECURSIVE SelectionToStatements(_, _, _)
RECURSIVE TypedToStatements(_, _, _)

\* for (child : sequence) nodeToStatements(child, ..., output)
childrenToStatements(s, sequence, i, output) ==
    IF ~s.ok \/ i > Len(sequence) THEN Ret(s, output) ELSE
    Bind(nodeToStatements(s, sequence[i], output), LAMBDA r :
    childrenToStatements(r.s, sequence, i + 1, r.v))

\* A faulty variant: the block is given the next id but is not stored.
slurpStatementBlockNotStored(s, node) ==
    IF ~s.ok THEN Ret(s, Void) ELSE
    Bind(IF getAsAggregate(node) /\ node.op = "EOpSequence"
         THEN childrenToStatements(s, node.sequence, 1, << >>)
         ELSE nodeToStatements(s, node, << >>), LAMBDA statements :
    IF ~statements.s.ok THEN Ret(statements.s, Void) ELSE
    Ret([statements.s EXCEPT !.mStatementBlocks.mLastId = @ + 1],
        statements.s.mStatementBlocks.mLastId + 1))

slurpStatementBlock(s, node) ==
    IF ~s.ok THEN Ret(s, Void) ELSE
    Bind(IF getAsAggregate(node) /\ node.op = "EOpSequence"
         THEN childrenToStatements(s, node.sequence, 1, << >>)
         ELSE nodeToStatements(s, node, << >>), LAMBDA statements :
    IF ~statements.s.ok THEN Ret(statements.s, Void) ELSE
    Bind(IdStoreByValue_insert(statements.s.mStatementBlocks, statements.v),
         LAMBDA b :
    Ret([statements.s EXCEPT !.mStatementBlocks = b.store], b.id)))

\* A faulty variant: only a bare symbol is pruned, a bare constant is lowered.
LoopToStatementsLoweringConstants(s, node, output) ==
    Bind(slurpValue(s, node.test), LAMBDA conditionId :
    Bind(/\ has_value(node.terminal)
         /\ ~getAsSymbolNode(value(node.terminal)), LAMBDA slurpTerminal :
    Bind(IF slurpTerminal THEN slurpValue(conditionId.s, value(node.terminal))
         ELSE Ret(conditionId.s, Void), LAMBDA terminalIdAsValueId :
    IF ~terminalIdAsValueId.s.ok THEN Ret(terminalIdAsValueId.s, output)
    ELSE IF slurpTerminal /\ ~IsRValueId(terminalIdAsValueId.v)
    THEN Panic(terminalIdAsValueId.s)
    ELSE Bind(IF slurpTerminal THEN Some(terminalIdAsValueId.v.RValueId)
              ELSE nullopt, LAMBDA terminalId :
         Bind(slurpStatementBlock(terminalIdAsValueId.s, node.body), LAMBDA bodyId :
         IF ~bodyId.s.ok THEN Ret(bodyId.s, output)
         ELSE Ret(bodyId.s,
                  Append(output, LoopStatement(conditionId.v, terminalId,
                                               node.testFirst, bodyId.v))))))))

\* nodeToStatements, the loop node
LoopToStatements(s, node, output) ==
    Bind(slurpValue(s, node.test), LAMBDA conditionId :
    Bind(/\ has_value(node.terminal)
         /\ ~getAsSymbolNode(value(node.terminal))
         /\ ~getAsConstantUnion(value(node.terminal)), LAMBDA slurpTerminal :
    Bind(IF slurpTerminal THEN slurpValue(conditionId.s, value(node.terminal))
         ELSE Ret(conditionId.s, Void), LAMBDA terminalIdAsValueId :
    IF ~terminalIdAsValueId.s.ok THEN Ret(terminalIdAsValueId.s, output)
    ELSE IF slurpTerminal /\ ~IsRValueId(terminalIdAsValueId.v)
    THEN Panic(terminalIdAsValueId.s)
    ELSE Bind(IF slurpTerminal THEN Some(terminalIdAsValueId.v.RValueId)
              ELSE nullopt, LAMBDA terminalId :
         Bind(slurpStatementBlock(terminalIdAsValueId.s, node.body), LAMBDA bodyId :
         IF ~bodyId.s.ok THEN Ret(bodyId.s, output)
         ELSE Ret(bodyId.s,
                  Append(output, LoopStatement(conditionId.v, terminalId,
                                               node.testFirst, bodyId.v))))))))

\* A faulty variant: the expression of the branch is lowered and then dropped.
BranchToStatementsWithoutOperand(s, node, output) ==
    Bind(glslangOperatorToBranchOperator(node.flowOp), LAMBDA op :
    IF ~op.ok THEN Panic(s) ELSE
    Bind(IF has_value(node.expression)
         THEN slurpValue(s, value(node.expression))
         ELSE Ret(s, Void), LAMBDA operandId :
    IF ~operandId.s.ok THEN Ret(operandId.s, output)
    ELSE Ret(operandId.s, Append(output, BranchStatement(op.v, nullopt)))))

\* nodeToStatements, the branch node
BranchToStatements(s, node, output) ==
    Bind(glslangOperatorToBranchOperator(node.flowOp), LAMBDA op :
    IF ~op.ok THEN Panic(s) ELSE
    Bind(IF has_value(node.expression)
         THEN slurpValue(s, value(node.expression))
         ELSE Ret(s, Void), LAMBDA operandId :
    IF ~operandId.s.ok THEN Ret(operandId.s, output)
    ELSE Ret(operandId.s,
             Append(output,
                    BranchStatement(op.v, IF has_value(node.expression)
                                          THEN Some(operandId.v) ELSE nullopt)))))

\* nodeToStatements, the switch node
SwitchToStatements(s, node, output) ==
    IF getAsTyped(node.condition)
    THEN Bind(slurpValue(s, node.condition), LAMBDA conditionId :
         Bind(slurpStatementBlock(conditionId.s, node.body), LAMBDA bodyId :
         IF ~bodyId.s.ok THEN Ret(bodyId.s, output)
         ELSE Ret(bodyId.s,
                  Append(output, SwitchStatement(conditionId.v, bodyId.v)))))
    ELSE Panic(s)

\* nodeToStatements, the selection node
SelectionToStatements(s, node, output) ==
    Bind(slurpValue(s, node.condition), LAMBDA conditionId :
    Bind(slurpStatementBlock(conditionId.s, node.trueBlock), LAMBDA trueId :
    Bind(IF has_value(node.falseBlock)
         THEN slurpStatementBlock(trueId.s, value(node.falseBlock))
         ELSE Ret(trueId.s, Void), LAMBDA falseId :
    IF ~falseId.s.ok THEN Ret(falseId.s, output)
    ELSE Ret(falseId.s,
             Append(output,
                    IfStatement(conditionId.v, trueId.v,
                                IF has_value(node.falseBlock)
                                THEN Some(falseId.v) ELSE nullopt))))))

\* A faulty variant: a stray symbol is lowered like any other typed node.
TypedToStatementsLoweringSymbols(s, node, output) ==
    IF ~getAsConstantUnion(node)
    THEN Bind(slurpValue(s, node), LAMBDA valueId :
         IF ~valueId.s.ok THEN Ret(valueId.s, output)
         ELSE IF IsRValueId(valueId.v)
         THEN Ret(valueId.s, Append(output, valueId.v))
         ELSE Panic(valueId.s))
    ELSE Ret(s, output)

\* nodeToStatements, any other typed node
TypedToStatements(s, node, output) ==
    IF ~getAsSymbolNode(node) /\ ~getAsConstantUnion(node)
    THEN Bind(slurpValue(s, node), LAMBDA valueId :
         IF ~valueId.s.ok THEN Ret(valueId.s, output)
         ELSE IF IsRValueId(valueId.v)
         THEN Ret(valueId.s, Append(output, valueId.v))
         ELSE Panic(valueId.s))
    ELSE Ret(s, output)

\* A faulty variant: a sequence in a block is skipped, not flattened.
nodeToStatementsSkippingNested(s, node, output) ==
    IF ~s.ok THEN Ret(s, output)
    ELSE IF getAsLoopNode(node) THEN LoopToStatements(s, node, output)
    ELSE IF getAsBranchNode(node) THEN BranchToStatements(s, node, output)
    ELSE IF getAsSwitchNode(node) THEN SwitchToStatements(s, node, output)
    ELSE IF getAsSelectionNode(node) THEN SelectionToStatements(s, node, output)
    ELSE IF getAsAggregate(node) /\ node.op = "EOpSequence"
    THEN Ret(s, output)
    ELSE IF getAsTyped(node) THEN TypedToStatements(s, node, output)
    ELSE Panic(s)

nodeToStatements(s, node, output) ==
    IF ~s.ok THEN Ret(s, output)
    ELSE IF getAsLoopNode(node) THEN LoopToStatements(s, node, output)
    ELSE IF getAsBranchNode(node) THEN BranchToStatements(s, node, output)
    ELSE IF getAsSwitchNode(node) THEN SwitchToStatements(s, node, output)
    ELSE IF getAsSelectionNode(node) THEN SelectionToStatements(s, node, output)
    ELSE IF getAsAggregate(node) /\ node.op = "EOpSequence"
    THEN childrenToStatements(s, node.sequence, 1, output)
    ELSE IF getAsTyped(node) THEN TypedToStatements(s, node, output)
    ELSE Panic(s)

(***************************************************************************)
(* slurpFunctionDefinition                                                 *)
(***************************************************************************)
FunctionDefinition(name, returnType, parameters, body, localSymbols) ==
    [name |-> name, returnType |-> returnType, parameters |-> parameters,
     body |-> body, localSymbols |-> localSymbols]

\* for (parameter : parametersNode->getSequence()) { ... }
RECURSIVE slurpParameters(_, _, _, _)
slurpParameters(s, sequence, i, parameters) ==
    IF ~s.ok \/ i > Len(sequence) THEN Ret(s, parameters)
    ELSE IF ~getAsSymbolNode(sequence[i]) THEN Panic(s)
    ELSE Bind(IdStoreByValue_insert(s.mStrings, sequence[i].name), LAMBDA nameId :
         Bind(slurpType([s EXCEPT !.mStrings = nameId.store], sequence[i].type),
              LAMBDA typeId :
         IF ~typeId.s.ok THEN Ret(typeId.s, parameters) ELSE
         Bind(IdStoreByKey_insert(typeId.s.localSymbols, sequence[i].id,
                                  Symbol(nameId.id, Some(typeId.v))), LAMBDA symbolId :
         slurpParameters([typeId.s EXCEPT !.localSymbols = symbolId.store],
                         sequence, i + 1, Append(parameters, symbolId.id)))))

\* mFunctionDefinitions[functionId] = definition
PutDefinition(definitions, functionId, definition) ==
    (functionId :> definition) @@ definitions

\* A faulty variant: the parameters are registered after the body is lowered.
slurpFunctionDefinitionBodyFirst(s, node) ==
    IF ~s.ok THEN Ret(s, Void)
    ELSE IF node.op # "EOpFunction" THEN Panic(s)
    ELSE IF Len(node.sequence) \notin {1, 2} THEN Panic(s)
    ELSE IF ~getAsAggregate(node.sequence[1]) THEN Panic(s)
    ELSE
    Bind(IdStoreByValue_insert(s.mFunctionNames, node.name), LAMBDA functionId :
    Bind([s EXCEPT !.mFunctionNames = functionId.store], LAMBDA s1 :
    IF Len(node.sequence) = 1
    THEN Ret([s1 EXCEPT !.mFunctionPrototypes = @ \cup {functionId.id}], Void)
    ELSE
    Bind(slurpType(s1, node.type), LAMBDA returnTypeId :
    Bind(slurpStatementBlock([returnTypeId.s EXCEPT !.localSymbols = NewStore],
                             node.sequence[2]), LAMBDA bodyId :
    Bind(slurpParameters(bodyId.s, node.sequence[1].sequence, 1, << >>),
         LAMBDA parameters :
    IF ~parameters.s.ok THEN Ret(parameters.s, Void)
    ELSE Ret([parameters.s EXCEPT
                 !.mFunctionDefinitions =
                     PutDefinition(@, functionId.id,
                         FunctionDefinition(functionId.id, returnTypeId.v,
                             parameters.v, bodyId.v,
                             IdStoreByKey_getFinal(parameters.s.localSymbols))),
                 !.mFunctionDefinitionsInOrder = Append(@, functionId.id)],
             Void))))))

\* A faulty variant: the return type is lowered before the prototype returns.
slurpFunctionDefinitionTypeFirst(s, node) ==
    IF ~s.ok THEN Ret(s, Void)
    ELSE IF node.op # "EOpFunction" THEN Panic(s)
    ELSE IF Len(node.sequence) \notin {1, 2} THEN Panic(s)
    ELSE IF ~getAsAggregate(node.sequence[1]) THEN Panic(s)
    ELSE
    Bind(IdStoreByValue_insert(s.mFunctionNames, node.name), LAMBDA functionId :
    Bind(slurpType([s EXCEPT !.mFunctionNames = functionId.store], node.type),
         LAMBDA returnTypeId :
    IF Len(node.sequence) = 1
    THEN Ret([returnTypeId.s EXCEPT !.mFunctionPrototypes = @ \cup {functionId.id}],
             Void)
    ELSE
    Bind(slurpParameters([returnTypeId.s EXCEPT !.localSymbols = NewStore],
                         node.sequence[1].sequence, 1, << >>), LAMBDA parameters :
    Bind(slurpStatementBlock(parameters.s, node.sequence[2]), LAMBDA bodyId :
    IF ~bodyId.s.ok THEN Ret(bodyId.s, Void)
    ELSE Ret([bodyId.s EXCEPT
                 !.mFunctionDefinitions =
                     PutDefinition(@, functionId.id,
                         FunctionDefinition(functionId.id, returnTypeId.v,
                             parameters.v, bodyId.v,
                             IdStoreByKey_getFinal(bodyId.s.localSymbols))),
                 !.mFunctionDefinitionsInOrder = Append(@, functionId.id)],
             Void)))))

\* A faulty variant: the local symbols are finalized before the body is lowered.
slurpFunctionDefinitionEarlyLocals(s, node) ==
    IF ~s.ok THEN Ret(s, Void)
    ELSE IF node.op # "EOpFunction" THEN Panic(s)
    ELSE IF Len(node.sequence) \notin {1, 2} THEN Panic(s)
    ELSE IF ~getAsAggregate(node.sequence[1]) THEN Panic(s)
    ELSE
    Bind(IdStoreByValue_insert(s.mFunctionNames, node.name), LAMBDA functionId :
    Bind([s EXCEPT !.mFunctionNames = functionId.store], LAMBDA s1 :
    IF Len(node.sequence) = 1
    THEN Ret([s1 EXCEPT !.mFunctionPrototypes = @ \cup {functionId.id}], Void)
    ELSE
    Bind(slurpType(s1, node.type), LAMBDA returnTypeId :
    Bind(slurpParameters([returnTypeId.s EXCEPT !.localSymbols = NewStore],
                         node.sequence[1].sequence, 1, << >>), LAMBDA parameters :
    Bind(slurpStatementBlock(parameters.s, node.sequence[2]), LAMBDA bodyId :
    IF ~bodyId.s.ok THEN Ret(bodyId.s, Void)
    ELSE Ret([bodyId.s EXCEPT
                 !.mFunctionDefinitions =
                     PutDefinition(@, functionId.id,
                         FunctionDefinition(functionId.id, returnTypeId.v,
                             parameters.v, bodyId.v,
                             IdStoreByKey_getFinal(parameters.s.localSymbols))),
                 !.mFunctionDefinitionsInOrder = Append(@, functionId.id)],
             Void))))))

slurpFunctionDefinition(s, node) ==
    IF ~s.ok THEN Ret(s, Void)
    ELSE IF node.op # "EOpFunction" THEN Panic(s)
    ELSE IF Len(node.sequence) \notin {1, 2} THEN Panic(s)
    ELSE IF ~getAsAggregate(node.sequence[1]) THEN Panic(s)
    ELSE
    Bind(IdStoreByValue_insert(s.mFunctionNames, node.name), LAMBDA functionId :
    Bind([s EXCEPT !.mFunctionNames = functionId.store], LAMBDA s1 :
    IF Len(node.sequence) = 1
    THEN Ret([s1 EXCEPT !.mFunctionPrototypes = @ \cup {functionId.id}], Void)
    ELSE
    Bind(slurpType(s1, node.type), LAMBDA returnTypeId :
    Bind(slurpParameters([returnTypeId.s EXCEPT !.localSymbols = NewStore],
                         node.sequence[1].sequence, 1, << >>), LAMBDA parameters :
    Bind(slurpStatementBlock(parameters.s, node.sequence[2]), LAMBDA bodyId :
    IF ~bodyId.s.ok THEN Ret(bodyId.s, Void)
    ELSE Ret([bodyId.s EXCEPT
                 !.mFunctionDefinitions =
                     PutDefinition(@, functionId.id,
                         FunctionDefinition(functionId.id, returnTypeId.v,
                             parameters.v, bodyId.v,
                             IdStoreByKey_getFinal(bodyId.s.localSymbols))),
                 !.mFunctionDefinitionsInOrder = Append(@, functionId.id)],
             Void))))))

(***************************************************************************)
(* slurpFromRoot, in its four loops.                                       *)
(***************************************************************************)
\* A faulty variant: a child of no handled kind is passed over.
RECURSIVE SortChildrenSkippingUnhandled(_, _, _)
SortChildrenSkippingUnhandled(sequence, i, buckets) ==
    IF i > Len(sequence) THEN buckets
    ELSE IF getAsAggregate(sequence[i]) /\ sequence[i].op = "EOpLinkerObjects"
    THEN SortChildrenSkippingUnhandled(sequence, i + 1,
             [buckets EXCEPT !.linkerObjectNodes = Append(@, sequence[i])])
    ELSE IF getAsAggregate(sequence[i]) /\ sequence[i].op = "EOpSequence"
    THEN SortChildrenSkippingUnhandled(sequence, i + 1,
             [buckets EXCEPT !.sequenceNodes = Append(@, sequence[i])])
    ELSE IF getAsAggregate(sequence[i]) /\ sequence[i].op = "EOpFunction"
    THEN SortChildrenSkippingUnhandled(sequence, i + 1,
             [buckets EXCEPT !.functionNodes = Append(@, sequence[i])])
    ELSE SortChildrenSkippingUnhandled(sequence, i + 1, buckets)

\* The first loop: the children sorted into the three buckets, or a panic.
RECURSIVE SortChildren(_, _, _)
SortChildren(sequence, i, buckets) ==
    IF i > Len(sequence) THEN buckets
    ELSE IF getAsAggregate(sequence[i]) /\ sequence[i].op = "EOpLinkerObjects"
    THEN SortChildren(sequence, i + 1,
             [buckets EXCEPT !.linkerObjectNodes = Append(@, sequence[i])])
    ELSE IF getAsAggregate(sequence[i]) /\ sequence[i].op = "EOpSequence"
    THEN SortChildren(sequence, i + 1,
             [buckets EXCEPT !.sequenceNodes = Append(@, sequence[i])])
    ELSE IF getAsAggregate(sequence[i]) /\ sequence[i].op = "EOpFunction"
    THEN SortChildren(sequence, i + 1,
             [buckets EXCEPT !.functionNodes = Append(@, sequence[i])])
    ELSE [buckets EXCEPT !.ok = FALSE]

\* for (child : linkerObject->getSequence()) { ... slurpGlobalSymbol(child) }
RECURSIVE slurpLinkerObject(_, _, _)
slurpLinkerObject(s, sequence, i) ==
    IF ~s.ok \/ i > Len(sequence) THEN Ret(s, Void)
    ELSE IF ~getAsSymbolNode(sequence[i]) THEN Panic(s)
    ELSE Bind(slurpGlobalSymbol(s, sequence[i]), LAMBDA r :
         slurpLinkerObject(r.s, sequence, i + 1))

\* A faulty variant: the local symbols are not looked at after the lowering.
slurpGlobalDefinitionUnchecked(s, child) ==
    IF ~(getAsBinaryNode(child) /\ child.op = "EOpAssign") THEN Panic(s)
    ELSE IF ~getAsSymbolNode(child.left) THEN Panic(s)
    ELSE Bind(slurpGlobalSymbol(s, child.left), LAMBDA globalSymbolId :
         Bind(slurpValue(globalSymbolId.s, child.right), LAMBDA initialValue :
         IF ~initialValue.s.ok THEN Ret(initialValue.s, Void)
         ELSE Ret([initialValue.s EXCEPT
                      !.mGlobalSymbolDefinitionsInOrder =
                          Append(@, <<globalSymbolId.v, initialValue.v>>)],
                  Void)))

\* A faulty variant: a child that is no assignment to a symbol is passed over.
slurpGlobalDefinitionSkippingMalformed(s, child) ==
    IF ~(getAsBinaryNode(child) /\ child.op = "EOpAssign") THEN Ret(s, Void)
    ELSE IF ~getAsSymbolNode(child.left) THEN Ret(s, Void)
    ELSE Bind(slurpGlobalSymbol(s, child.left), LAMBDA globalSymbolId :
         Bind(slurpValue(globalSymbolId.s, child.right), LAMBDA initialValue :
         IF ~initialValue.s.ok THEN Ret(initialValue.s, Void)
         ELSE IF ~IdStoreByKey_empty(initialValue.s.localSymbols)
         THEN Panic(initialValue.s)
         ELSE Ret([initialValue.s EXCEPT
                      !.mGlobalSymbolDefinitionsInOrder =
                          Append(@, <<globalSymbolId.v, initialValue.v>>)],
                  Void)))

\* A faulty variant: the definition is put at the front of the list.
slurpGlobalDefinitionAtFront(s, child) ==
    IF ~(getAsBinaryNode(child) /\ child.op = "EOpAssign") THEN Panic(s)
    ELSE IF ~getAsSymbolNode(child.left) THEN Panic(s)
    ELSE Bind(slurpGlobalSymbol(s, child.left), LAMBDA globalSymbolId :
         Bind(slurpValue(globalSymbolId.s, child.right), LAMBDA initialValue :
         IF ~initialValue.s.ok THEN Ret(initialValue.s, Void)
         ELSE IF ~IdStoreByKey_empty(initialValue.s.localSymbols)
         THEN Panic(initialValue.s)
         ELSE Ret([initialValue.s EXCEPT
                      !.mGlobalSymbolDefinitionsInOrder =
                          <<(<<globalSymbolId.v, initialValue.v>>)>> \o @],
                  Void)))

\* One child of a root-level sequence: a global variable definition.
slurpGlobalDefinition(s, child) ==
    IF ~(getAsBinaryNode(child) /\ child.op = "EOpAssign") THEN Panic(s)
    ELSE IF ~getAsSymbolNode(child.left) THEN Panic(s)
    ELSE Bind(slurpGlobalSymbol(s, child.left), LAMBDA globalSymbolId :
         Bind(slurpValue(globalSymbolId.s, child.right), LAMBDA initialValue :
         IF ~initialValue.s.ok THEN Ret(initialValue.s, Void)
         ELSE IF ~IdStoreByKey_empty(initialValue.s.localSymbols)
         THEN Panic(initialValue.s)
         ELSE Ret([initialValue.s EXCEPT
                      !.mGlobalSymbolDefinitionsInOrder =
                          Append(@, <<globalSymbolId.v, initialValue.v>>)],
                  Void)))

\* for (child : sequence->getSequence()) { ... }
RECURSIVE slurpSequence(_, _, _)
slurpSequence(s, sequence, i) ==
    IF ~s.ok \/ i > Len(sequence) THEN Ret(s, Void)
    ELSE Bind(slurpGlobalDefinition(s, sequence[i]), LAMBDA r :
         slurpSequence(r.s, sequence, i + 1))

(***************************************************************************)
(* The inputs of the model: a few types, symbols, expressions and          *)
(* statements, and the root children built from them.                      *)
(***************************************************************************)
tVoid == TType("EbtVoid", 1)
tFloat == TType("EbtFloat", 1)
tInt == TType("EbtInt", 1)
tBool == TType("EbtBool", 1)
tVec3 == TType("EbtFloat", 3)
tVec4 == TType("EbtFloat", 4)
tMediumFloat == [tFloat EXCEPT !.qualifier.precision = "EpqMedium"]
tBuiltInVec4 ==
    [tVec4 EXCEPT !.qualifier.builtIn = TRUE, !.qualifier.precision = "EpqHigh"]
tBlock == [TType("EbtBlock", 1) EXCEPT !.typeName = "Blk"]
tInt64 == TType("EbtInt64", 1)

\* Symbols: one declaration identity each.
symX == IntermSymbol(11, "x", "x", tMediumFloat)
symY == IntermSymbol(12, "y", "y", tFloat)
symGl == IntermSymbol(13, "gl_FragCoord", "gl_FragCoord", tBuiltInVec4)
symI == IntermSymbol(14, "i", "i", tInt)
symW == IntermSymbol(15, "w", "w", tFloat)
symU == IntermSymbol(16, "u", "Blk", tBlock)
symBad == IntermSymbol(17, "q", "q", tInt64)
symV == IntermSymbol(18, "v", "v", tFloat)
symZ == IntermSymbol(19, "z", "z", TType("EbtUint", 1))

Const(type, c) == [type |-> type, c |-> c]
lit1 == IntermConstantUnion(<<Const("EbtDouble", 1)>>, tFloat)
lit4 == IntermConstantUnion(<<Const("EbtInt", 4)>>, tInt)
litVec3 ==
    IntermConstantUnion(
        <<Const("EbtDouble", 1), Const("EbtDouble", 2), Const("EbtDouble", 3)>>, tVec3)
litInt64 == IntermConstantUnion(<<Const("EbtInt64", 1)>>, tInt64)
lit7 == IntermConstantUnion(<<Const("EbtInt", 7)>>, tInt)
\* vec2(1.0, 2.0), vec4(1.0, 2.0, 2.0, 1.0), bvec2(true, false): a bool
\* constant is written 1 or 0
litVec2 ==
    IntermConstantUnion(<<Const("EbtDouble", 1), Const("EbtDouble", 2)>>,
                        TType("EbtFloat", 2))
litVec4 ==
    IntermConstantUnion(
        <<Const("EbtDouble", 1), Const("EbtDouble", 2), Const("EbtDouble", 2),
          Const("EbtDouble", 1)>>, tVec4)
litBVec2 ==
    IntermConstantUnion(<<Const("EbtBool", 1), Const("EbtBool", 0)>>,
                        TType("EbtBool", 2))
\* a constant without values, float[2](1.0, 2.0), mat2(1.0, 2.0, 3.0, 4.0) and
\* vec2[3](vec2(1.0, 2.0), vec2(1.0, 2.0), vec2(1.0, 2.0))
litNone == IntermConstantUnion(<< >>, tFloat)
litArray2 ==
    IntermConstantUnion(<<Const("EbtDouble", 1), Const("EbtDouble", 2)>>,
                        [tFloat EXCEPT !.arraySizes = <<2>>])
litMat2 ==
    IntermConstantUnion(
        <<Const("EbtDouble", 1), Const("EbtDouble", 2), Const("EbtDouble", 3),
          Const("EbtDouble", 4)>>,
        [TType("EbtFloat", 0) EXCEPT !.matrixCols = 2, !.matrixRows = 2])
litVec2Array3 ==
    IntermConstantUnion(
        <<Const("EbtDouble", 1), Const("EbtDouble", 2), Const("EbtDouble", 1),
          Const("EbtDouble", 2), Const("EbtDouble", 1), Const("EbtDouble", 2)>>,
        [TType("EbtFloat", 2) EXCEPT !.arraySizes = <<3>>])

Sequence(children) == IntermAggregate("EOpSequence", "", children, tVoid)
Return(expression) == IntermBranch("EOpReturn", Some(expression))
Break == IntermBranch("EOpBreak", nullopt)
Continue == IntermBranch("EOpContinue", nullopt)
Assign(left, right) == IntermBinary("EOpAssign", left, right, left.type)

addYX == IntermBinary("EOpAdd", symY, symX, tFloat)
addWX == IntermBinary("EOpAdd", symW, symX, tFloat)
lessI == IntermBinary("EOpLessThan", symI, lit4, tBool)
incI == IntermUnary("EOpPostIncrement", symI, tInt)
swizzleGl ==
    IntermBinary("EOpVectorSwizzle", symGl, Sequence(<<lit4>>), tFloat)
callF == IntermAggregate("EOpFunctionCall", "f(f1;", <<lit1>>, tFloat)
ternary == IntermSelection(lessI, lit1, Some(callF), tFloat)
maxOf == IntermAggregate("EOpMax", "", <<ternary, swizzleGl>>, tFloat)
\* Operators that have no case in the switch of glslangOperatorToRValueOperator.
unknownOp == IntermUnary("EOpDeclare", lit4, tInt)
unknownBinary == IntermBinary("EOpMatrixTimesMatrix", symI, lit4, tInt)
unknownAggregate == IntermAggregate("EOpNull", "", <<lit4, symI>>, tInt)

\* float f(float y) { return y + x; } and its prototype
Function(name, children, type) == IntermAggregate("EOpFunction", name, children, type)
Parameters(symbols) == IntermAggregate("EOpParameters", "", symbols, tVoid)
FunctionF ==
    Function("f(f1;", <<Parameters(<<symY>>), Sequence(<<Return(addYX)>>)>>, tFloat)
PrototypeF == Function("f(f1;", <<Parameters(<<symY>>)>>, tFloat)
\* the same function declared again with another parameter declaration
FunctionF2 ==
    Function("f(f1;", <<Parameters(<<symW>>), Sequence(<<Return(addWX)>>)>>, tFloat)
\* void g(int i, float w) { for (; i < 4; i++) { if (i < 4) break; else continue; i; }
\*                 switch (i) { { v = max(i < 4 ? 1.0 : f(1.0), gl_FragCoord.?); } }
\*                 vec3(1.0, 2.0, 3.0); <unknown operator>(4);
\*                 i <unknown operator> 4; <unknown operator>(4, i); i++; }
FunctionG ==
    Function("g(i1;f1;",
        <<Parameters(<<symI, symW>>),
          Sequence(<<
              IntermLoop(lessI, Some(incI), TRUE,
                  Sequence(<<IntermSelection(lessI, Break, Some(Continue), tVoid),
                             symI>>)),
              IntermSwitch(symI, Sequence(<<Sequence(<<Assign(symV, maxOf)>>)>>)),
              litVec3,
              unknownOp,
              unknownBinary,
              unknownAggregate,
              incI>>)>>,
        tVoid)
PrototypeG == Function("g(i1;f1;", <<Parameters(<<symI, symW>>)>>, tVoid)
\* void k(int i) { return 1.0; return vec2(..); return vec3(..); return vec4(..);
\*                 return bvec2(..);
\*                 do { break; } while (i < 4);
\*                 for (; i < 4; z) { break; }   for (; i < 4; 7) { break; }
\*                 for (; i < 4; i++) { break; } }
ConstantsOfK == <<lit1, litVec2, litVec3, litVec4, litBVec2>>
LoopsOfK ==
    <<IntermLoop(lessI, nullopt, FALSE, Sequence(<<Break>>)),
      IntermLoop(lessI, Some(symZ), TRUE, Sequence(<<Break>>)),
      IntermLoop(lessI, Some(lit7), TRUE, Sequence(<<Break>>)),
      IntermLoop(lessI, Some(incI), TRUE, Sequence(<<Break>>))>>
FunctionK ==
    Function("k(i1;",
        <<Parameters(<<symI>>),
          Sequence([c \in DOMAIN ConstantsOfK |-> Return(ConstantsOfK[c])]
                   \o LoopsOfK)>>,
        tVoid)

LinkerObjects(symbols) == IntermAggregate("EOpLinkerObjects", "", symbols, tVoid)
LinkerX == LinkerObjects(<<symX>>)
LinkerXUGl == LinkerObjects(<<symX, symU, symGl, symX>>)
\* x = 1.0;
InitX == Sequence(<<Assign(symX, lit1)>>)
\* u = gl_FragCoord; gl_FragCoord = x + 1.0;
InitUGl ==
    Sequence(<<Assign(symU, symGl),
               Assign(symGl, IntermBinary("EOpAdd", symX, lit1, tFloat))>>)

GoodChildren ==
    {LinkerX, LinkerXUGl, InitX, InitUGl, FunctionF, PrototypeF, FunctionF2,
     FunctionG, FunctionK}

\* Constants that slurpValueFromConstantUnion refuses.
FatalConstants == {litNone, litArray2, litMat2, litVec2Array3}

\* Children that violate a precondition of the pass.
BodyOf(statement) ==
    Function("h(", <<Parameters(<< >>), Sequence(<<Return(lit1), statement>>)>>, tVoid)
BadChildren ==
    {symX,                                                \* unhandled root child
     LinkerObjects(<<symX, lit1, symU>>),                 \* non-symbol global
     Sequence(<<Assign(symX, lit1), addYX, Assign(symU, lit4)>>),  \* not an assignment
     Sequence(<<Assign(IntermBinary("EOpIndexDirectStruct", symU, lit4, tFloat), lit1)>>),
     Sequence(<<Assign(symX, lit1),                       \* an indexed left side
                Assign(IntermBinary("EOpIndexDirect", symU, lit4, tFloat), lit1)>>),
     Sequence(<<Assign(symX, lit1), callF>>),             \* a call, no assignment
     Sequence(<<Assign(symX, symY)>>),                    \* a local in an initializer
     Function("h(", <<Parameters(<< >>), Sequence(<< >>), Sequence(<< >>)>>, tVoid),
     Function("h(", <<Parameters(<<symY, lit1>>), Sequence(<< >>)>>, tVoid),
     Function("h(", << >>, tVoid),                        \* a function of no elements
     Function("h(", <<symY>>, tVoid),                     \* parameters: no aggregate
     BodyOf(Assign(symY, symBad)),                        \* unsupported basic type
     BodyOf(Assign(symY, litInt64)),                      \* unsupported literal
     BodyOf(IntermBranch("EOpNull", nullopt)),            \* unknown branch operator
     BodyOf(IntermAggregate("EOpFunctionCall", "f(f1;", <<lit4, Break>>, tFloat)),
     BodyOf(Assign(symY, IntermSelection(lessI, lit1, Some(Break), tFloat))),
     BodyOf(Assign(symY, Parameters(<<symY>>)))}          \* banned aggregate
    \cup {BodyOf(Return(c)) : c \in FatalConstants}

RootChildren == GoodChildren \cup BadChildren

SeqUpTo(S, n) == UNION {[1..k -> S] : k \in 0..n}

\* The root sequences: up to MaxRootChildren children, at most one of which
\* violates a precondition (the pass stops at the first one).
RootSequences ==
    {children \in SeqUpTo(RootChildren, MaxRootChildren) :
        Cardinality({i \in DOMAIN children : children[i] \in BadChildren}) <= 1}

Roots ==
    {Sequence(children) : children \in RootSequences}
    \cup {symX, LinkerX}      \* a root that is no aggregate, and one that is no sequence

Versions == {100, 310}

(***************************************************************************)
(* One lowering pass: fromGlsl(intermediate).                              *)
(***************************************************************************)
\* The Slurper as the state the lowering operators thread.
Slurper ==
    [mVersion |-> mVersion, mStrings |-> mStrings, mTypes |-> mTypes,
     mGlobalSymbols |-> mGlobalSymbols, mRValues |-> mRValues,
     mFunctionNames |-> mFunctionNames, mStatementBlocks |-> mStatementBlocks,
     mFunctionDefinitions |-> mFunctionDefinitions,
     mFunctionPrototypes |-> mFunctionPrototypes,
     mGlobalSymbolDefinitionsInOrder |-> mGlobalSymbolDefinitionsInOrder,
     mFunctionDefinitionsInOrder |-> mFunctionDefinitionsInOrder,
     localSymbols |-> NewStore, ok |-> TRUE]

\* The members of the Slurper after a step that left it as s.
Becomes(s) ==
    /\ mStrings' = s.mStrings
    /\ mTypes' = s.mTypes
    /\ mGlobalSymbols' = s.mGlobalSymbols
    /\ mRValues' = s.mRValues
    /\ mFunctionNames' = s.mFunctionNames
    /\ mStatementBlocks' = s.mStatementBlocks
    /\ mFunctionDefinitions' = s.mFunctionDefinitions
    /\ mFunctionPrototypes' = s.mFunctionPrototypes
    /\ mGlobalSymbolDefinitionsInOrder' = s.mGlobalSymbolDefinitionsInOrder
    /\ mFunctionDefinitionsInOrder' = s.mFunctionDefinitionsInOrder

members == <<mStrings, mTypes, mGlobalSymbols, mRValues, mFunctionNames,
             mStatementBlocks, mFunctionDefinitions, mFunctionPrototypes,
             mGlobalSymbolDefinitionsInOrder, mFunctionDefinitionsInOrder>>

\* A faulty variant: the functions are lowered before the globals.
LoopAfterFunctionsFirst(linkerObjects, sequences, functions) ==
    IF functions # << >> THEN "functions"
    ELSE IF linkerObjects # << >> THEN "linkerObjects"
    ELSE IF sequences # << >> THEN "sequences"
    ELSE "slurped"

\* The loop of slurpFromRoot that runs next, given what is left in the buckets.
LoopAfter(linkerObjects, sequences, functions) ==
    IF linkerObjects # << >> THEN "linkerObjects"
    ELSE IF sequences # << >> THEN "sequences"
    ELSE IF functions # << >> THEN "functions"
    ELSE "slurped"

\* A panic ends the pass: PANIC_PRECONDITION / ASSERT_PRECONDITION do not return.
PcAfter(ok, next) == IF ok THEN next ELSE "aborted"

NoPack == nullopt

Init ==
    /\ root \in Roots
    /\ mVersion \in Versions
    /\ pc = "sortChildren"
    /\ linkerObjectNodes = << >>
    /\ sequenceNodes = << >>
    /\ functionNodes = << >>
    /\ mStrings = NewStore
    /\ mTypes = NewStore
    /\ mGlobalSymbols = NewStore
    /\ mRValues = NewStore
    /\ mFunctionNames = NewStore
    /\ mStatementBlocks = NewStore
    /\ mFunctionDefinitions = << >>
    /\ mFunctionPrototypes = {}
    /\ mGlobalSymbolDefinitionsInOrder = << >>
    /\ mFunctionDefinitionsInOrder = << >>
    /\ pack = NoPack
    /\ previous = NoPack
    /\ byValue = NewStore
    /\ byKey = NewStore
    /\ calls = << >>
    /\ localSymbolsOfFunction = NewStore
    /\ lowered = << >>

\* slurpFromRoot: the two preconditions on the root and the sorting loop.
SortRootChildren ==
    /\ pc = "sortChildren"
    /\ LET empty == [linkerObjectNodes |-> << >>, sequenceNodes |-> << >>,
                     functionNodes |-> << >>, ok |-> TRUE]
           b == IF getAsAggregate(root) /\ root.op = "EOpSequence"
                THEN SortChildren(root.sequence, 1, empty)
                ELSE [empty EXCEPT !.ok = FALSE]
       IN /\ linkerObjectNodes' = b.linkerObjectNodes
          /\ sequenceNodes' = b.sequenceNodes
          /\ functionNodes' = b.functionNodes
          /\ pc' = PcAfter(b.ok, LoopAfter(b.linkerObjectNodes, b.sequenceNodes,
                                           b.functionNodes))
    /\ UNCHANGED <<root, mVersion, previous, members, pack, storeVars, lowerVars>>

\* slurpFromRoot: one round of the loop over linkerObjectNodes.
SlurpLinkerObjects ==
    /\ pc = "linkerObjects"
    /\ LET r == Bind(Slurper, LAMBDA s :
                    slurpLinkerObject(s, Head(linkerObjectNodes).sequence, 1))
           rest == IF r.s.ok THEN Tail(linkerObjectNodes) ELSE linkerObjectNodes
       IN /\ Becomes(r.s)
          /\ linkerObjectNodes' = rest
          /\ pc' = PcAfter(r.s.ok, LoopAfter(rest, sequenceNodes, functionNodes))
    /\ UNCHANGED <<root, mVersion, previous, sequenceNodes, functionNodes, pack, storeVars, lowerVars>>

\* slurpFromRoot: one round of the loop over sequenceNodes.
SlurpSequences ==
    /\ pc = "sequences"
    /\ LET r == Bind(Slurper, LAMBDA s :
                    slurpSequence(s, Head(sequenceNodes).sequence, 1))
           rest == IF r.s.ok THEN Tail(sequenceNodes) ELSE sequenceNodes
       IN /\ Becomes(r.s)
          /\ sequenceNodes' = rest
          /\ pc' = PcAfter(r.s.ok, LoopAfter(linkerObjectNodes, rest, functionNodes))
    /\ UNCHANGED <<root, mVersion, previous, linkerObjectNodes, functionNodes, pack, storeVars, lowerVars>>

\* slurpFromRoot: one round of the loop over functionNodes.
SlurpFunctions ==
    /\ pc = "functions"
    /\ LET r == Bind(Slurper, LAMBDA s :
                    slurpFunctionDefinition(s, Head(functionNodes)))
           rest == IF r.s.ok THEN Tail(functionNodes) ELSE functionNodes
       IN /\ Becomes(r.s)
          /\ functionNodes' = rest
          /\ pc' = PcAfter(r.s.ok, LoopAfter(linkerObjectNodes, sequenceNodes, rest))
    /\ UNCHANGED <<root, mVersion, previous, linkerObjectNodes, sequenceNodes, pack, storeVars, lowerVars>>

PackFromGlsl ==
    [version |-> mVersion,
     strings |-> IdStoreByValue_getFinal(mStrings),
     types |-> IdStoreByValue_getFinal(mTypes),
     globalSymbols |-> IdStoreByKey_getFinal(mGlobalSymbols),
     rValues |-> IdStoreByValue_getFinal(mRValues),
     functionNames |-> IdStoreByValue_getFinal(mFunctionNames),
     statementBlocks |-> IdStoreByValue_getFinal(mStatementBlocks),
     functionDefinitions |-> mFunctionDefinitions,
     functionPrototypes |-> mFunctionPrototypes,
     globalSymbolDefinitionsInOrder |-> mGlobalSymbolDefinitionsInOrder,
     functionDefinitionsInOrder |-> mFunctionDefinitionsInOrder]

\* fromGlsl: the constructor has returned; slurper.intoPack() is the result.
IntoPack ==
    /\ pc = "slurped"
    /\ pack' = Some(PackFromGlsl)
    /\ pc' = "done"
    /\ UNCHANGED <<root, mVersion, previous, linkerObjectNodes, sequenceNodes, functionNodes,
                   members, storeVars, lowerVars>>

\* A Slurper as its member declarations leave it.
NewSlurper ==
    [mStrings |-> NewStore, mTypes |-> NewStore, mGlobalSymbols |-> NewStore,
     mRValues |-> NewStore, mFunctionNames |-> NewStore,
     mStatementBlocks |-> NewStore, mFunctionDefinitions |-> << >>,
     mFunctionPrototypes |-> {}, mGlobalSymbolDefinitionsInOrder |-> << >>,
     mFunctionDefinitionsInOrder |-> << >>]

\* A faulty variant of a second call: the Slurper of the first call is used
\* again, with its tables as they are.
FromGlslAgainOnTheSameSlurper ==
    /\ pc = "done"
    /\ previous = NoPack
    /\ previous' = pack
    /\ pack' = NoPack
    /\ pc' = "sortChildren"
    /\ UNCHANGED <<root, mVersion, linkerObjectNodes, sequenceNodes, functionNodes,
                   members, storeVars, lowerVars>>

\* fromGlsl called a second time on the same intermediate: a new Slurper.
FromGlslAgain ==
    /\ pc = "done"
    /\ previous = NoPack
    /\ previous' = pack
    /\ pack' = NoPack
    /\ pc' = "sortChildren"
    /\ Becomes(NewSlurper)
    /\ UNCHANGED <<root, mVersion, linkerObjectNodes, sequenceNodes, functionNodes,
                   storeVars, lowerVars>>

Next ==
    \/ SortRootChildren
    \/ SlurpLinkerObjects
    \/ SlurpSequences
    \/ SlurpFunctions
    \/ IntoPack
    \/ FromGlslAgain

Spec == Init /\ [][Next]_vars

(***************************************************************************)
(* The two stores on their own: any calls, in any order, each logged with  *)
(* what it returned.                                                       *)
(***************************************************************************)
StoreValues == {"x", "y", "z"}       \* values of the by-value store
StoreKeys == {11, 12, 13}            \* keys of the by-key store
KeyedValues == {"x", "y"}            \* values of the by-key store

StoreInit ==
    /\ root = Sequence(<< >>)
    /\ mVersion = 100
    /\ pc = "stores"
    /\ linkerObjectNodes = << >>
    /\ sequenceNodes = << >>
    /\ functionNodes = << >>
    /\ mStrings = NewStore
    /\ mTypes = NewStore
    /\ mGlobalSymbols = NewStore
    /\ mRValues = NewStore
    /\ mFunctionNames = NewStore
    /\ mStatementBlocks = NewStore
    /\ mFunctionDefinitions = << >>
    /\ mFunctionPrototypes = {}
    /\ mGlobalSymbolDefinitionsInOrder = << >>
    /\ mFunctionDefinitionsInOrder = << >>
    /\ pack = NoPack
    /\ previous = NoPack
    /\ byValue = NewStore
    /\ byKey = NewStore
    /\ calls = << >>
    /\ localSymbolsOfFunction = NewStore
    /\ lowered = << >>

InsertByValue ==
    /\ Len(calls) < MaxCalls
    /\ \E v \in StoreValues :
        LET r == IdStoreByValue_insert(byValue, v)
        IN /\ byValue' = r.store
           /\ calls' = Append(calls, [call |-> "IdStoreByValue::insert",
                                      value |-> v, id |-> r.id])
    /\ UNCHANGED <<passVars, lowerVars, byKey>>

InsertByKey ==
    /\ Len(calls) < MaxCalls
    /\ \E key \in StoreKeys, v \in KeyedValues :
        LET r == IdStoreByKey_insert(byKey, key, v)
        IN /\ byKey' = r.store
           /\ calls' = Append(calls, [call |-> "IdStoreByKey::insert",
                                      key |-> key, value |-> v, id |-> r.id])
    /\ UNCHANGED <<passVars, lowerVars, byValue>>

GetByKey ==
    /\ Len(calls) < MaxCalls
    /\ \E key \in StoreKeys :
        LET r == IdStoreByKey_get(byKey, key)
        IN /\ byKey' = r.store
           /\ calls' = Append(calls, [call |-> "IdStoreByKey::get",
                                      key |-> key, id |-> r.id])
    /\ UNCHANGED <<passVars, lowerVars, byValue>>

StoreNext ==
    \/ InsertByValue
    \/ InsertByKey
    \/ GetByKey

StoreSpec == StoreInit /\ [][StoreNext]_vars


(***************************************************************************)
(* The lowering operators on their own: expressions, statement blocks,     *)
(* function children and types are lowered one after the other into the    *)
(* tables of one Slurper, each lowering logged with what it returned.      *)
(* Expressions and blocks share the LocalSymbols of one function; a        *)
(* function child is lowered with its own.                                 *)
(***************************************************************************)
\* The inputs of LowerSpec.
\* { y = 1.0; i++; f(1.0); } flat, nested, with stray symbols and constants
\* in between, and in another order; blocks that hold no statement; a block
\* with an if and a loop inside nested sequences.
assignY == Assign(symY, lit1)
flatBlock == Sequence(<<assignY, incI, callF>>)
nestedBlock ==
    Sequence(<<Sequence(<<assignY, Sequence(<<incI>>)>>), Sequence(<< >>), callF>>)
strayBlock ==
    Sequence(<<symY, assignY, lit1, incI, Sequence(<<symX, lit4>>), callF>>)
reorderedBlock == Sequence(<<incI, assignY, callF>>)
emptyBlock == Sequence(<< >>)
strayOnlyBlock ==
    Sequence(<<symY, lit1, Sequence(<< >>), Sequence(<<Sequence(<<lit4, symX>>)>>)>>)
ifI == IntermSelection(lessI, Sequence(<<Sequence(<<assignY>>), symY>>), nullopt, tVoid)
loopI == IntermLoop(lessI, Some(incI), TRUE, Sequence(<<Sequence(<< >>)>>))
controlBlock == Sequence(<<ifI, loopI, Return(symY)>>)
nestedControlBlock ==
    Sequence(<<Sequence(<<Sequence(<<ifI>>), lit1>>), Sequence(<<loopI, Return(symY)>>)>>)
BlockNodes ==
    {flatBlock, nestedBlock, strayBlock, reorderedBlock, emptyBlock, strayOnlyBlock,
     controlBlock, nestedControlBlock, assignY, symY, lit1}

\* f(y) + sin(w), abs(f(y)), clamp(y, sin(w), f(1.0)), max(gl_FragCoord, x):
\* operators whose operands make entries of their own
callFY == IntermAggregate("EOpFunctionCall", "f(f1;", <<symY>>, tFloat)
sinW == IntermUnary("EOpSin", symW, tFloat)
addCallSin == IntermBinary("EOpAdd", callFY, sinW, tFloat)
absCall == IntermUnary("EOpAbs", callFY, tFloat)
clampOf == IntermAggregate("EOpClamp", "", <<symY, sinW, callF>>, tFloat)
maxGlX == IntermAggregate("EOpMax", "", <<symGl, symX>>, tVec4)
OperatorNodes == {addCallSin, absCall, clampOf, maxGlX, sinW, lessI, incI, assignY}

\* y op 1.0 for the compound assignments and for their base operators
CompoundOperators ==
    {"EOpAddAssign", "EOpSubAssign", "EOpMulAssign", "EOpVectorTimesMatrixAssign",
     "EOpVectorTimesScalarAssign", "EOpMatrixTimesScalarAssign",
     "EOpMatrixTimesMatrixAssign", "EOpDivAssign", "EOpModAssign", "EOpAndAssign",
     "EOpInclusiveOrAssign", "EOpExclusiveOrAssign", "EOpLeftShiftAssign",
     "EOpRightShiftAssign"}
BaseOperators ==
    {"EOpAdd", "EOpSub", "EOpMul", "EOpDiv", "EOpMod", "EOpAnd", "EOpInclusiveOr",
     "EOpExclusiveOr", "EOpLeftShift", "EOpRightShift"}
AssignmentNodes ==
    {IntermBinary(op, symY, lit1, tFloat) : op \in CompoundOperators \cup BaseOperators}

\* texture(s, 1.0) for a sampler s of every dimension, shadow or not; each
\* of the six operators without arguments and with a 2D, a shadow cube and a
\* buffer sampler
SamplerDims == {"Esd1D", "Esd2D", "Esd3D", "EsdCube", "EsdRect", "EsdBuffer"}
SamplerType(dim, shadow) ==
    [TType("EbtSampler", 1) EXCEPT
        !.sampler = [dim |-> dim, shadow |-> shadow, string |-> "sampler"]]
symS(dim, shadow) == IntermSymbol(20, "s", "s", SamplerType(dim, shadow))
TextureArguments ==
    {<< >>, <<symS("Esd2D", FALSE), lit1>>, <<symS("EsdCube", TRUE), lit1>>,
     <<symS("EsdBuffer", FALSE), lit1>>}
TextureNodes ==
    {IntermAggregate(op, "", arguments, tVec4) :
        op \in DOMAIN TextureSuffix, arguments \in TextureArguments}
    \cup {IntermAggregate("EOpTexture", "", <<symS(dim, shadow), lit1>>, tVec4) :
            dim \in SamplerDims, shadow \in BOOLEAN}
\* GLSL ES 1.00, GLSL 1.10, GLSL ES 3.10
LowerVersions == {100, 110, 310}

\* gl_FragCoord.?, v.?? and (f(y) + sin(w)).?: swizzles of a built-in, of a
\* symbol and of an expression, with one and with two components
swizzleV == IntermBinary("EOpVectorSwizzle", symV, Sequence(<<lit1, lit4>>), tFloat)
swizzleSum ==
    IntermBinary("EOpVectorSwizzle", addCallSin, Sequence(<<lit7>>), tFloat)
SwizzleNodes == {swizzleGl, swizzleV, swizzleSum}

\* <unknown operator>(i < 4, 1.0, f(1.0)): the operands of the ternary under an
\* operator that has no case in the switch
unknownOfTernary == IntermAggregate("EOpNull", "", <<lessI, lit1, callF>>, tFloat)

ValueNodes ==
    OperatorNodes \cup AssignmentNodes \cup TextureNodes \cup SwizzleNodes
    \cup {callF, symY, symX, symGl, lit1, litVec3, ternary, unknownOfTernary}
\* float h(float w) { return w + v; }: the shape of f over other declarations
FunctionH ==
    Function("h(f1;",
        <<Parameters(<<symW>>),
          Sequence(<<Return(IntermBinary("EOpAdd", symW, symV, tFloat))>>)>>,
        tFloat)
FunctionNodes == {FunctionF, FunctionG, FunctionK, FunctionH}
\* float and double types: the vector sizes 0..5, every matrix of 2..4
\* columns and rows, and matrices with a column or row count of 1 or 5
MatrixType(basicType, cols, rows) ==
    [TType(basicType, 0) EXCEPT !.matrixCols = cols, !.matrixRows = rows]
MatrixShapes ==
    ((2..4) \X (2..4)) \cup {<<1, 2>>, <<2, 1>>, <<5, 2>>, <<2, 5>>, <<1, 1>>, <<5, 5>>}
TypeShapes ==
    {TType(basicType, vectorSize) :
        basicType \in {"EbtFloat", "EbtDouble"}, vectorSize \in 0..5}
    \cup {MatrixType(basicType, shape[1], shape[2]) :
            basicType \in {"EbtFloat", "EbtDouble"}, shape \in MatrixShapes}

\* The Slurper with the LocalSymbols the caller passes down.
SlurperOfFunction == [Slurper EXCEPT !.localSymbols = localSymbolsOfFunction]

LowerInit ==
    /\ root = Sequence(<< >>)
    /\ mVersion \in LowerVersions
    /\ pc = "lowering"
    /\ linkerObjectNodes = << >>
    /\ sequenceNodes = << >>
    /\ functionNodes = << >>
    /\ mStrings = NewStore
    /\ mTypes = NewStore
    /\ mGlobalSymbols = NewStore
    /\ mRValues = NewStore
    /\ mFunctionNames = NewStore
    /\ mStatementBlocks = NewStore
    /\ mFunctionDefinitions = << >>
    /\ mFunctionPrototypes = {}
    /\ mGlobalSymbolDefinitionsInOrder = << >>
    /\ mFunctionDefinitionsInOrder = << >>
    /\ pack = NoPack
    /\ previous = NoPack
    /\ byValue = NewStore
    /\ byKey = NewStore
    /\ calls = << >>
    /\ localSymbolsOfFunction = NewStore
    /\ lowered = << >>

\* What a lowering leaves: the tables, the log (the call, the Slurper before
\* and after it, what it returned), and whether the pass goes on.
Lowered(call, node, s, r) ==
    /\ Becomes(r.s)
    /\ lowered' = Append(lowered, [call |-> call, node |-> node, before |-> s,
                                   after |-> r.s, ok |-> r.s.ok, v |-> r.v])
    /\ pc' = PcAfter(r.s.ok, "lowering")
    /\ UNCHANGED <<root, mVersion, linkerObjectNodes, sequenceNodes, functionNodes,
                   pack, previous, storeVars>>

SlurpValue ==
    /\ pc = "lowering"
    /\ Len(lowered) < MaxLowered
    /\ \E node \in ValueNodes :
          LET r == Bind(SlurperOfFunction, LAMBDA s : slurpValue(s, node))
          IN /\ Lowered("slurpValue", node, SlurperOfFunction, r)
             /\ localSymbolsOfFunction' = r.s.localSymbols

SlurpStatementBlock ==
    /\ pc = "lowering"
    /\ Len(lowered) < MaxLowered
    /\ \E node \in BlockNodes :
          LET r == Bind(SlurperOfFunction, LAMBDA s : slurpStatementBlock(s, node))
          IN /\ Lowered("slurpStatementBlock", node, SlurperOfFunction, r)
             /\ localSymbolsOfFunction' = r.s.localSymbols

SlurpFunctionDefinition ==
    /\ pc = "lowering"
    /\ Len(lowered) < MaxLowered
    /\ \E node \in FunctionNodes :
          LET r == Bind(Slurper, LAMBDA s : slurpFunctionDefinition(s, node))
          IN /\ Lowered("slurpFunctionDefinition", node, Slurper, r)
             /\ UNCHANGED localSymbolsOfFunction

SlurpType ==
    /\ pc = "lowering"
    /\ Len(lowered) < MaxLowered
    /\ \E type \in TypeShapes :
          LET r == Bind(SlurperOfFunction, LAMBDA s : slurpType(s, type))
          IN /\ Lowered("slurpType", type, SlurperOfFunction, r)
             /\ UNCHANGED localSymbolsOfFunction

LowerNext ==
    \/ SlurpValue
    \/ SlurpStatementBlock
    \/ SlurpFunctionDefinition
    \/ SlurpType

LowerSpec == LowerInit /\ [][LowerNext]_vars


(***************************************************************************)
(* Properties of the stores, over the log of StoreSpec.                    *)
(***************************************************************************)
ByValueInserts == {i \in DOMAIN calls : calls[i].call = "IdStoreByValue::insert"}
ByKeyInserts == {i \in DOMAIN calls : calls[i].call = "IdStoreByKey::insert"}
ByKeyGets == {i \in DOMAIN calls : calls[i].call = "IdStoreByKey::get"}

\* The first insert of a value, and of a key, in the log.
FirstInsertOfValue(v) ==
    CHOOSE i \in ByValueInserts :
        /\ calls[i].value = v
        /\ \A j \in ByValueInserts : calls[j].value = v => i <= j
FirstInsertOfKey(key) ==
    CHOOSE i \in ByKeyInserts :
        /\ calls[i].key = key
        /\ \A j \in ByKeyInserts : calls[j].key = key => i <= j
InsertedValues == {calls[i].value : i \in ByValueInserts}
InsertedKeys == {calls[i].key : i \in ByKeyInserts}
\* The distinct values, and keys, inserted before call i.
ValuesBefore(i) == {calls[j].value : j \in {k \in ByValueInserts : k < i}}
KeysBefore(i) == {calls[j].key : j \in {k \in ByKeyInserts : k < i}}

\* C1: in a by-value store, after any sequence of insert calls, two inserts
\* return the same id if and only if their values are equal.
C1_ValueInterning ==
    \A i, j \in ByValueInserts :
        (calls[i].id = calls[j].id) <=> (calls[i].value = calls[j].value)

\* Some value was inserted twice and some other value too.
C1_Witness ==
    \E i, j, k \in ByValueInserts :
        /\ i < j
        /\ calls[i].value = calls[j].value
        /\ calls[k].value # calls[i].value

\* C2: in a by-key store an insert of a key already present returns the id
\* of the key's first insert and leaves the stored value as the first insert
\* gave it; get returns that id, or nothing for a key never inserted; the
\* store is what the inserts alone made it: get changes nothing in it and
\* consumes no id.
C2_FirstInsertWins ==
    /\ \A i \in ByKeyInserts :
          calls[i].id = calls[FirstInsertOfKey(calls[i].key)].id
    /\ DOMAIN byKey.mMap = InsertedKeys
    /\ \A key \in InsertedKeys :
          byKey.mMap[key] = [first |-> calls[FirstInsertOfKey(key)].id,
                             second |-> calls[FirstInsertOfKey(key)].value]
    /\ \A i \in ByKeyGets :
          calls[i].id = IF calls[i].key \in KeysBefore(i)
                        THEN Some(calls[FirstInsertOfKey(calls[i].key)].id)
                        ELSE nullopt
    /\ byKey.mLastId = Cardinality(InsertedKeys)

\* A key was inserted again with another value and then looked up, and a key
\* never inserted was looked up.
C2_Witness ==
    \E i, j, g, h \in DOMAIN calls :
        /\ i \in ByKeyInserts /\ j \in ByKeyInserts /\ i < j
        /\ calls[i].key = calls[j].key /\ calls[i].value # calls[j].value
        /\ g \in ByKeyGets /\ j < g /\ calls[g].key = calls[i].key
        /\ h \in ByKeyGets /\ calls[h].id = nullopt

\* C3: the ids a store has issued are exactly 1..n for n distinct values
\* (keys) inserted, the k-th distinct one has id k, an insert that finds its
\* entry consumes no id, and the finalized map has the keys 1..n, each with
\* the value of its first insert.
C3_DenseIds ==
    /\ {calls[i].id : i \in ByValueInserts} = 1..Cardinality(InsertedValues)
    /\ \A i \in ByValueInserts :
          i = FirstInsertOfValue(calls[i].value)
              => calls[i].id = Cardinality(ValuesBefore(i)) + 1
    /\ byValue.mLastId = Cardinality(InsertedValues)
    /\ DOMAIN IdStoreByValue_getFinal(byValue) = 1..Cardinality(InsertedValues)
    /\ \A v \in InsertedValues :
          IdStoreByValue_getFinal(byValue)[calls[FirstInsertOfValue(v)].id] = v
    /\ {calls[i].id : i \in ByKeyInserts} = 1..Cardinality(InsertedKeys)
    /\ \A i \in ByKeyInserts :
          i = FirstInsertOfKey(calls[i].key)
              => calls[i].id = Cardinality(KeysBefore(i)) + 1
    /\ DOMAIN IdStoreByKey_getFinal(byKey) = 1..Cardinality(InsertedKeys)
    /\ \A key \in InsertedKeys :
          IdStoreByKey_getFinal(byKey)[calls[FirstInsertOfKey(key)].id]
              = calls[FirstInsertOfKey(key)].value

\* A by-value store that issued an id after an insert that found its entry,
\* next to a by-key store that is not empty.
C3_Witness ==
    /\ \E i, j, k \in ByValueInserts :
          /\ i < j /\ j < k
          /\ calls[i].value = calls[j].value
          /\ calls[k].value \notin ValuesBefore(k)
    /\ Cardinality(InsertedKeys) >= 1

(***************************************************************************)
(* Properties of the Pack a pass returns.                                  *)
(***************************************************************************)
Produced == pc = "done"
ThePack == value(pack)

\* The children of the root by kind, in the order they have in the root.
IsLinkerObjects(child) == getAsAggregate(child) /\ child.op = "EOpLinkerObjects"
IsSequence(child) == getAsAggregate(child) /\ child.op = "EOpSequence"
IsFunction(child) == getAsAggregate(child) /\ child.op = "EOpFunction"
IsPrototype(child) == IsFunction(child) /\ Len(child.sequence) = 1
IsDefinition(child) == IsFunction(child) /\ Len(child.sequence) = 2
ChildrenOfRoot == IF IsSequence(root) THEN root.sequence ELSE << >>
\* The id a name has in the Pack's functionNames.
IdOfFunctionName(P, name) ==
    CHOOSE f \in DOMAIN P.functionNames : P.functionNames[f] = name
DeclaredFunctionIds ==
    {IdOfFunctionName(ThePack, ChildrenOfRoot[i].name) :
        i \in {j \in DOMAIN ChildrenOfRoot : IsFunction(ChildrenOfRoot[j])}}

\* C4: in every Pack produced, each declared FunctionId is in exactly one of
\* the prototype set and the definition map.
C4_Partition ==
    Produced =>
        \A f \in DeclaredFunctionIds :
            (f \in ThePack.functionPrototypes)
                # (f \in DOMAIN ThePack.functionDefinitions)

\* What the ids inside the entries of a Pack have to resolve to.
ValueIdResolves(P, v) ==
    /\ IsRValueId(v) => v.RValueId \in DOMAIN P.rValues
    /\ IsGlobalSymbolId(v) => v.GlobalSymbolId \in DOMAIN P.globalSymbols
OptionalResolves(o, ids) == has_value(o) => value(o) \in ids
TypeResolves(P, type) ==
    /\ type.name \in DOMAIN P.strings
    /\ OptionalResolves(type.qualifiers, DOMAIN P.strings)
SymbolResolves(P, symbol) ==
    /\ symbol.name \in DOMAIN P.strings
    /\ OptionalResolves(symbol.type, DOMAIN P.types)
RValueResolves(P, rvalue) ==
    "args" \in DOMAIN rvalue =>
        /\ "FunctionId" \in DOMAIN rvalue.op =>
              rvalue.op.FunctionId \in DOMAIN P.functionNames
        /\ \A i \in DOMAIN rvalue.args : ValueIdResolves(P, rvalue.args[i])
StatementResolves(P, statement) ==
    /\ IsRValueId(statement) => ValueIdResolves(P, statement)
    /\ "IfStatement" \in DOMAIN statement =>
          /\ ValueIdResolves(P, statement.IfStatement.condition)
          /\ statement.IfStatement.thenBlock \in DOMAIN P.statementBlocks
          /\ OptionalResolves(statement.IfStatement.elseBlock,
                              DOMAIN P.statementBlocks)
    /\ "LoopStatement" \in DOMAIN statement =>
          /\ ValueIdResolves(P, statement.LoopStatement.condition)
          /\ OptionalResolves(statement.LoopStatement.terminal, DOMAIN P.rValues)
          /\ statement.LoopStatement.body \in DOMAIN P.statementBlocks
    /\ "SwitchStatement" \in DOMAIN statement =>
          /\ ValueIdResolves(P, statement.SwitchStatement.condition)
          /\ statement.SwitchStatement.body \in DOMAIN P.statementBlocks
    /\ "BranchStatement" \in DOMAIN statement =>
          /\ has_value(statement.BranchStatement.operand) =>
                ValueIdResolves(P, value(statement.BranchStatement.operand))
DefinitionResolves(P, definition) ==
    /\ definition.name \in DOMAIN P.functionNames
    /\ definition.returnType \in DOMAIN P.types
    /\ definition.body \in DOMAIN P.statementBlocks
    /\ \A l \in DOMAIN definition.localSymbols :
          SymbolResolves(P, definition.localSymbols[l])

\* C5: in every Pack produced no id dangles: the StringIds of types and
\* symbols are keys of strings, the TypeIds of symbols and return types are
\* keys of types, the RValueIds, GlobalSymbolIds and FunctionIds of rvalues,
\* statements and the ordered lists are keys of their tables, and so are the
\* StatementBlockIds of statements and bodies and the FunctionIds of the
\* prototype set, the definition map and functionDefinitionsInOrder.
C5_NoDanglingIds ==
    Produced =>
        /\ \A t \in DOMAIN ThePack.types : TypeResolves(ThePack, ThePack.types[t])
        /\ \A g \in DOMAIN ThePack.globalSymbols :
              SymbolResolves(ThePack, ThePack.globalSymbols[g])
        /\ \A r \in DOMAIN ThePack.rValues :
              RValueResolves(ThePack, ThePack.rValues[r])
        /\ \A b \in DOMAIN ThePack.statementBlocks :
              \A i \in DOMAIN ThePack.statementBlocks[b] :
                  StatementResolves(ThePack, ThePack.statementBlocks[b][i])
        /\ \A f \in DOMAIN ThePack.functionDefinitions :
              /\ f \in DOMAIN ThePack.functionNames
              /\ DefinitionResolves(ThePack, ThePack.functionDefinitions[f])
        /\ ThePack.functionPrototypes \subseteq DOMAIN ThePack.functionNames
        /\ \A i \in DOMAIN ThePack.functionDefinitionsInOrder :
              ThePack.functionDefinitionsInOrder[i] \in DOMAIN ThePack.functionNames
        /\ \A i \in DOMAIN ThePack.globalSymbolDefinitionsInOrder :
              /\ ThePack.globalSymbolDefinitionsInOrder[i][1]
                    \in DOMAIN ThePack.globalSymbols
              /\ ValueIdResolves(ThePack, ThePack.globalSymbolDefinitionsInOrder[i][2])

\* A Pack with a global initializer, a prototype, a definition, a call of a
\* function by id, a loop with a terminal and an if with an else block.
C5_Witness ==
    /\ Produced
    /\ ThePack.globalSymbolDefinitionsInOrder # << >>
    /\ ThePack.functionPrototypes # {}
    /\ ThePack.functionDefinitionsInOrder # << >>
    /\ \E r \in DOMAIN ThePack.rValues :
          /\ "args" \in DOMAIN ThePack.rValues[r]
          /\ "FunctionId" \in DOMAIN ThePack.rValues[r].op
          /\ ThePack.rValues[r].args # << >>
    /\ \E b \in DOMAIN ThePack.statementBlocks :
          \E i \in DOMAIN ThePack.statementBlocks[b] :
              /\ "LoopStatement" \in DOMAIN ThePack.statementBlocks[b][i]
              /\ has_value(ThePack.statementBlocks[b][i].LoopStatement.terminal)
    /\ \E b \in DOMAIN ThePack.statementBlocks :
          \E i \in DOMAIN ThePack.statementBlocks[b] :
              /\ "IfStatement" \in DOMAIN ThePack.statementBlocks[b][i]
              /\ has_value(ThePack.statementBlocks[b][i].IfStatement.elseBlock)

\* The LocalSymbolIds reachable from a value, a statement and a block of a
\* Pack, through the argument lists of rvalues and the nested blocks.
RECURSIVE LocalsOfValue(_, _)
LocalsOfValue(P, v) ==
    IF IsLocalSymbolId(v) THEN {v.LocalSymbolId}
    ELSE IF IsRValueId(v) /\ "args" \in DOMAIN P.rValues[v.RValueId]
    THEN UNION {LocalsOfValue(P, P.rValues[v.RValueId].args[i]) :
                   i \in DOMAIN P.rValues[v.RValueId].args}
    ELSE {}
LocalsOfOptionalValue(P, o) == IF has_value(o) THEN LocalsOfValue(P, value(o)) ELSE {}

RECURSIVE LocalsOfBlock(_, _)
LocalsOfOptionalBlock(P, o) == IF has_value(o) THEN LocalsOfBlock(P, value(o)) ELSE {}
LocalsOfStatement(P, statement) ==
    IF IsRValueId(statement) THEN LocalsOfValue(P, statement)
    ELSE IF "IfStatement" \in DOMAIN statement
    THEN LocalsOfValue(P, statement.IfStatement.condition)
         \cup LocalsOfBlock(P, statement.IfStatement.thenBlock)
         \cup LocalsOfOptionalBlock(P, statement.IfStatement.elseBlock)
    ELSE IF "LoopStatement" \in DOMAIN statement
    THEN LocalsOfValue(P, statement.LoopStatement.condition)
         \cup (IF has_value(statement.LoopStatement.terminal)
               THEN LocalsOfValue(P, RValueId(value(statement.LoopStatement.terminal)))
               ELSE {})
         \cup LocalsOfBlock(P, statement.LoopStatement.body)
    ELSE IF "SwitchStatement" \in DOMAIN statement
    THEN LocalsOfValue(P, statement.SwitchStatement.condition)
         \cup LocalsOfBlock(P, statement.SwitchStatement.body)
    ELSE LocalsOfOptionalValue(P, statement.BranchStatement.operand)
LocalsOfBlock(P, b) ==
    UNION {LocalsOfStatement(P, P.statementBlocks[b][i]) :
              i \in DOMAIN P.statementBlocks[b]}

\* C6: for every function definition of the Pack, every LocalSymbolId
\* reachable from its body and every LocalSymbolId of its parameters is a key
\* of the definition's own local symbols.
C6_LocalsResolveInOwnMap ==
    Produced =>
        \A f \in DOMAIN ThePack.functionDefinitions :
            /\ LocalsOfBlock(ThePack, ThePack.functionDefinitions[f].body)
                  \subseteq DOMAIN ThePack.functionDefinitions[f].localSymbols
            /\ \A i \in DOMAIN ThePack.functionDefinitions[f].parameters :
                  ThePack.functionDefinitions[f].parameters[i]
                      \in DOMAIN ThePack.functionDefinitions[f].localSymbols

\* Two definitions that share an rvalue naming a local symbol, one of them
\* with a local symbol that is no parameter and is first met in a nested block.
C6_Witness ==
    /\ Produced
    /\ \E f, g \in DOMAIN ThePack.functionDefinitions :
          /\ f # g
          /\ LocalsOfBlock(ThePack, ThePack.functionDefinitions[f].body) # {}
          /\ \E l \in LocalsOfBlock(ThePack, ThePack.functionDefinitions[g].body) :
                \A i \in DOMAIN ThePack.functionDefinitions[g].parameters :
                    ThePack.functionDefinitions[g].parameters[i] # l
          /\ LocalsOfBlock(ThePack, ThePack.functionDefinitions[f].body)
                \cap LocalsOfBlock(ThePack, ThePack.functionDefinitions[g].body) # {}

\* The assignments of the root's bare sequences and the root's function
\* children with a body, each in the order of the root.
RECURSIVE Concat(_)
Concat(seqs) == IF seqs = << >> THEN << >> ELSE Head(seqs) \o Concat(Tail(seqs))
SequencesOfRoot == SelectSeq(ChildrenOfRoot, IsSequence)
AssignmentsOfRoot ==
    Concat([i \in DOMAIN SequencesOfRoot |-> SequencesOfRoot[i].sequence])
DefinitionsOfRoot == SelectSeq(ChildrenOfRoot, IsDefinition)

\* C8: globalSymbolDefinitionsInOrder has one entry per assignment of the
\* root's bare sequences, in the order of the sequences in the root and of
\* the assignments in each: the k-th entry is the id of the k-th assignment's
\* symbol and the value its right-hand side lowers to; and
\* functionDefinitionsInOrder has one FunctionId per function child with a
\* body, in the order of the root.
C8_OrderPreserved ==
    Produced =>
        /\ Len(ThePack.globalSymbolDefinitionsInOrder) = Len(AssignmentsOfRoot)
        /\ \A k \in DOMAIN AssignmentsOfRoot :
              /\ ThePack.globalSymbolDefinitionsInOrder[k][1]
                    = mGlobalSymbols.mMap[AssignmentsOfRoot[k].left.id].first
              /\ ThePack.globalSymbolDefinitionsInOrder[k][2]
                    = slurpValue(Slurper, AssignmentsOfRoot[k].right).v
        /\ Len(ThePack.functionDefinitionsInOrder) = Len(DefinitionsOfRoot)
        /\ \A k \in DOMAIN DefinitionsOfRoot :
              ThePack.functionDefinitionsInOrder[k]
                  = IdOfFunctionName(ThePack, DefinitionsOfRoot[k].name)

\* A Pack of a root whose first child is a function with a body and whose two
\* sequences give three entries, the first two for different symbols.
C8_Witness ==
    /\ Produced
    /\ ChildrenOfRoot # << >>
    /\ IsDefinition(ChildrenOfRoot[1])
    /\ Len(ThePack.globalSymbolDefinitionsInOrder) >= 3
    /\ ThePack.globalSymbolDefinitionsInOrder[1][1]
          # ThePack.globalSymbolDefinitionsInOrder[2][1]
    /\ Len(SequencesOfRoot) = 2

AllSymbols == {symX, symY, symGl, symI, symW, symU, symBad, symV, symZ}
SymbolOf(id) == CHOOSE symbol \in AllSymbols : symbol.id = id

\* The identities slurpValue meets in an expression.
RECURSIVE SymbolIdsIn(_)
SymbolIdsIn(node) ==
    IF getAsConstantUnion(node) THEN {}
    ELSE IF getAsSymbolNode(node) THEN {node.id}
    ELSE IF getAsUnaryNode(node) THEN SymbolIdsIn(node.operand)
    ELSE IF getAsBinaryNode(node)
    THEN IF node.op = "EOpVectorSwizzle" THEN {}
         ELSE SymbolIdsIn(node.left) \cup SymbolIdsIn(node.right)
    ELSE IF getAsSelectionNode(node)
    THEN SymbolIdsIn(node.condition) \cup SymbolIdsIn(node.trueBlock)
         \cup (IF has_value(node.falseBlock)
               THEN SymbolIdsIn(value(node.falseBlock)) ELSE {})
    ELSE IF getAsAggregate(node)
    THEN UNION {SymbolIdsIn(node.sequence[i]) : i \in DOMAIN node.sequence}
    ELSE {}

\* The identities the root's linker objects declare.
LinkerObjectsOfRoot == SelectSeq(ChildrenOfRoot, IsLinkerObjects)
LinkerSymbolIds ==
    UNION {{LinkerObjectsOfRoot[i].sequence[j].id :
               j \in {k \in DOMAIN LinkerObjectsOfRoot[i].sequence :
                         getAsSymbolNode(LinkerObjectsOfRoot[i].sequence[k])}} :
           i \in DOMAIN LinkerObjectsOfRoot}

\* The identities on the two sides of a child of a root-level sequence.
LeftIds(child) ==
    IF getAsBinaryNode(child) /\ getAsSymbolNode(child.left)
    THEN {child.left.id} ELSE {}
RightIds(child) ==
    IF getAsBinaryNode(child) THEN SymbolIdsIn(child.right) ELSE {}

\* Whether the first occurrence of an identity is one that supplies its type:
\* a linker object's symbol or the left-hand side of an initializer, and not
\* an occurrence inside a right-hand side.
FirstOccurrenceHasType(id) ==
    \/ id \in LinkerSymbolIds
    \/ LET met == {k \in DOMAIN AssignmentsOfRoot :
                      id \in LeftIds(AssignmentsOfRoot[k])
                              \cup RightIds(AssignmentsOfRoot[k])}
       IN /\ met # {}
          /\ id \in LeftIds(AssignmentsOfRoot[CHOOSE k \in met : \A j \in met : k <= j])

\* The Symbol an occurrence of an identity supplies, in the tables as they are.
SuppliedSymbol(id, withType) ==
    Symbol(mStrings.mMap[SymbolOf(id).accessName],
           IF withType THEN Some(slurpType(Slurper, SymbolOf(id).type).v)
           ELSE nullopt)

\* The last child of the root that defines the function with an id.
DefinitionOf(P, f) ==
    DefinitionsOfRoot[
        CHOOSE k \in DOMAIN DefinitionsOfRoot :
            /\ IdOfFunctionName(P, DefinitionsOfRoot[k].name) = f
            /\ \A j \in DOMAIN DefinitionsOfRoot :
                  IdOfFunctionName(P, DefinitionsOfRoot[j].name) = f => j <= k]

GlobalNames(P) == {P.globalSymbols[g].name : g \in DOMAIN P.globalSymbols}

\* The global symbols of a pass: one entry per identity, with the Symbol its
\* first occurrence supplied.
GlobalSymbolsAsFirstSupplied ==
    \A id \in DOMAIN mGlobalSymbols.mMap :
        /\ mGlobalSymbols.mMap[id].second
              = SuppliedSymbol(id, FirstOccurrenceHasType(id))
        /\ \A other \in DOMAIN mGlobalSymbols.mMap :
              mGlobalSymbols.mMap[other].first = mGlobalSymbols.mMap[id].first
                  => other = id

\* The local symbols of the definitions of a Pack: the parameters in their
\* order, one entry per identity, none for an identity that is global.
LocalSymbolsPerIdentity(P) ==
    \A f \in DOMAIN P.functionDefinitions :
        /\ Len(P.functionDefinitions[f].parameters)
              = Len(DefinitionOf(P, f).sequence[1].sequence)
        /\ \A i \in DOMAIN P.functionDefinitions[f].parameters :
              P.strings[P.functionDefinitions[f].localSymbols[
                            P.functionDefinitions[f].parameters[i]].name]
                  = DefinitionOf(P, f).sequence[1].sequence[i].name
        /\ \A l, m \in DOMAIN P.functionDefinitions[f].localSymbols :
              P.functionDefinitions[f].localSymbols[l].name
                  = P.functionDefinitions[f].localSymbols[m].name => l = m
        /\ \A l \in DOMAIN P.functionDefinitions[f].localSymbols :
              P.functionDefinitions[f].localSymbols[l].name \notin GlobalNames(P)

\* A step of a pass leaves every entry of the global symbols as it is.
GlobalSymbolsKept ==
    pc' # "sortChildren" =>
        \A id \in DOMAIN mGlobalSymbols.mMap :
            /\ id \in DOMAIN mGlobalSymbols'.mMap
            /\ mGlobalSymbols'.mMap[id] = mGlobalSymbols.mMap[id]

\* C7: within one pass the occurrences of one declaration identity resolve
\* to one GlobalSymbolId, or within one function to one LocalSymbolId, and
\* the Symbol stored for the id is the one its first occurrence supplied and
\* never changes afterwards.
C7_KeyInterningStable ==
    /\ [](pc # "aborted" => GlobalSymbolsAsFirstSupplied)
    /\ [](Produced => LocalSymbolsPerIdentity(ThePack))
    /\ [][GlobalSymbolsKept]_vars

\* A Pack in which a built-in symbol was first met inside a right-hand side,
\* then on a left-hand side, and a function names a global and a local symbol.
C7_Witness ==
    /\ Produced
    /\ \E k \in DOMAIN ThePack.globalSymbolDefinitionsInOrder :
          ThePack.globalSymbols[ThePack.globalSymbolDefinitionsInOrder[k][1]].type
              = nullopt
    /\ \E f \in DOMAIN ThePack.functionDefinitions :
          /\ DOMAIN ThePack.functionDefinitions[f].localSymbols # {}
          /\ \E r \in DOMAIN ThePack.rValues :
                /\ "args" \in DOMAIN ThePack.rValues[r]
                /\ \E i, j \in DOMAIN ThePack.rValues[r].args :
                      /\ IsLocalSymbolId(ThePack.rValues[r].args[i])
                      /\ IsGlobalSymbolId(ThePack.rValues[r].args[j])

\* A root with a fatal condition: no sequence, or a child that violates a
\* precondition.
HasFatalCondition ==
    \/ ~IsSequence(root)
    \/ \E i \in DOMAIN ChildrenOfRoot : ChildrenOfRoot[i] \in BadChildren

\* What an aborted pass has not lowered.  Nothing at all, when the root or a
\* child of it was refused; else the node that failed is in the first bucket
\* that is not empty, and the buckets after it are untouched.
NothingLowered ==
    <<mStrings, mTypes, mGlobalSymbols, mRValues, mFunctionNames, mStatementBlocks,
      mFunctionDefinitions, mFunctionPrototypes, mGlobalSymbolDefinitionsInOrder,
      mFunctionDefinitionsInOrder>>
        = <<NewStore, NewStore, NewStore, NewStore, NewStore, NewStore,
            << >>, {}, << >>, << >>>>
NoFunctionLowered ==
    /\ mStatementBlocks = NewStore
    /\ mFunctionDefinitions = << >>
    /\ mFunctionPrototypes = {}
    /\ mFunctionDefinitionsInOrder = << >>
ChildrenIn(nodes) == Concat([i \in DOMAIN nodes |-> nodes[i].sequence])
LaterNodesNotLowered ==
    \/ NothingLowered
    \/ /\ linkerObjectNodes # << >>
       /\ mRValues = NewStore
       /\ mGlobalSymbolDefinitionsInOrder = << >>
       /\ NoFunctionLowered
       /\ sequenceNodes = SequencesOfRoot
       /\ functionNodes = SelectSeq(ChildrenOfRoot, IsFunction)
    \/ /\ linkerObjectNodes = << >>
       /\ sequenceNodes # << >>
       /\ NoFunctionLowered
       /\ Len(mGlobalSymbolDefinitionsInOrder)
             < Len(AssignmentsOfRoot) - Len(ChildrenIn(Tail(sequenceNodes)))
       /\ functionNodes = SelectSeq(ChildrenOfRoot, IsFunction)
    \/ /\ linkerObjectNodes = << >>
       /\ sequenceNodes = << >>
       /\ functionNodes # << >>
       /\ Len(mFunctionDefinitionsInOrder)
             = Len(DefinitionsOfRoot) - Len(SelectSeq(functionNodes, IsDefinition))
       /\ \A f \in mFunctionPrototypes :
             \E i \in DOMAIN ChildrenOfRoot :
                 /\ IsPrototype(ChildrenOfRoot[i])
                 /\ mFunctionNames.mMap[ChildrenOfRoot[i].name] = f

\* C10: a fatal condition stops the pass where it is raised: no Pack is
\* returned for a root that has one, an aborted pass takes no further step and
\* has lowered no node after the one that failed, whatever it had put in the
\* tables before.
C10_FatalAborts ==
    /\ HasFatalCondition => (pack = NoPack /\ pc \notin {"slurped", "done"})
    /\ pc = "aborted" =>
          /\ pack = NoPack
          /\ LaterNodesNotLowered
          /\ ~ENABLED Next

\* A pass that aborted in its second function, with rvalues and a definition
\* in the tables and a third function never lowered.
C10_Witness ==
    /\ pc = "aborted"
    /\ Len(functionNodes) = 2
    /\ Len(mFunctionDefinitionsInOrder) = 1
    /\ mRValues.mLastId > 0
    /\ IsDefinition(functionNodes[2])
    /\ functionNodes[2].name \notin DOMAIN mFunctionNames.mMap

\* The identities that are global when the right-hand side of the k-th
\* assignment of the root's sequences is lowered, and whether that side names
\* a symbol that is neither one of them nor a built-in.
GlobalBefore(k) ==
    LinkerSymbolIds \cup UNION {LeftIds(AssignmentsOfRoot[j]) : j \in 1..k}
TouchesLocals(k) ==
    \E id \in RightIds(AssignmentsOfRoot[k]) :
        /\ ~isBuiltIn(SymbolOf(id).type)
        /\ id \notin GlobalBefore(k)
InitializerTouchesLocals == \E k \in DOMAIN AssignmentsOfRoot : TouchesLocals(k)

\* The definition and the body a Pack has for a function name.
PackDefinition(P, name) == P.functionDefinitions[IdOfFunctionName(P, name)]
PackBody(P, name) == P.statementBlocks[PackDefinition(P, name).body]
\* The rvalue a statement of a block is, when it is an RValueId.
RValueOfStatement(P, statement) == P.rValues[statement.RValueId]
IdOfRValue(P, rvalue) == CHOOSE r \in DOMAIN P.rValues : P.rValues[r] = rvalue
RootHas(child) == \E i \in DOMAIN ChildrenOfRoot : ChildrenOfRoot[i] = child

\* The last four statements of g: the three operators without a case, over
\* the literal 4 and the parameter i, and the i++ that follows them.
UnknownOperatorsAsTernary(P) ==
    LET body == PackBody(P, "g(i1;f1;")
        n == Len(body)
        four == RValueId(IdOfRValue(P, LiteralRValue("int", 4)))
        i == LocalSymbolId(PackDefinition(P, "g(i1;f1;").parameters[1])
    IN /\ n >= 4
       /\ \A k \in (n - 3)..n : IsRValueId(body[k])
       /\ RValueOfStatement(P, body[n - 3])
             = EvaluableRValue(Tag("Ternary"), <<four>>)
       /\ RValueOfStatement(P, body[n - 2])
             = EvaluableRValue(Tag("Ternary"), <<i, four>>)
       /\ RValueOfStatement(P, body[n - 1])
             = EvaluableRValue(Tag("Ternary"), <<four, i>>)
       /\ RValueOfStatement(P, body[n])
             = EvaluableRValue(Tag("PostIncrement"), <<i>>)

\* C11: an operator without a case does not abort the pass.  A pass aborts
\* only for a root with a fatal condition, which an unknown operator is not;
\* until the Pack is returned the pass has a next step; and in the Pack the
\* unary, binary and n-ary node with such an operator is the EvaluableRValue
\* with the tag Ternary over its lowered operands, followed by what the
\* statement after them lowers to.
C11_UnknownOperatorTolerated ==
    /\ pc = "aborted" => (HasFatalCondition \/ InitializerTouchesLocals)
    /\ pc \notin {"aborted", "done"} => ENABLED Next
    /\ (Produced /\ RootHas(FunctionG)) => UnknownOperatorsAsTernary(ThePack)

\* A Pack of a root whose first child is g and whose last child is another
\* function with a body, lowered after it.
C11_Witness ==
    /\ Produced
    /\ Len(ChildrenOfRoot) = 3
    /\ ChildrenOfRoot[1] = FunctionG
    /\ ChildrenOfRoot[3] = FunctionF
    /\ ThePack.functionDefinitionsInOrder
          = <<IdOfFunctionName(ThePack, "g(i1;f1;"), IdOfFunctionName(ThePack, "f(f1;")>>
    /\ \E r \in DOMAIN ThePack.rValues :
          ThePack.rValues[r] = EvaluableRValue(Tag("Ternary"),
                                   <<RValueId(IdOfRValue(ThePack, LiteralRValue("int", 4)))>>)


\* A child of a root-level sequence as the pass requires it, and the places
\* among the children of the root's sequences of those that are not.
WellFormedInitializer(child) ==
    /\ getAsBinaryNode(child)
    /\ child.op = "EOpAssign"
    /\ getAsSymbolNode(child.left)
MalformedInitializers ==
    {k \in DOMAIN AssignmentsOfRoot : ~WellFormedInitializer(AssignmentsOfRoot[k])}

\* C12: every entry of globalSymbolDefinitionsInOrder is for a child of a
\* root-level sequence that is an Assign with a symbol on its left; a root
\* with a child that is no assignment, or an assignment to anything but a
\* symbol, never gets past the initializers and returns no Pack, and no entry
\* is appended for that child or a later one.
C12_InitializerShape ==
    /\ \A k \in DOMAIN mGlobalSymbolDefinitionsInOrder :
          /\ k \in DOMAIN AssignmentsOfRoot
          /\ WellFormedInitializer(AssignmentsOfRoot[k])
          /\ mGlobalSymbolDefinitionsInOrder[k][1]
                = mGlobalSymbols.mMap[AssignmentsOfRoot[k].left.id].first
    /\ MalformedInitializers # {} =>
          /\ pack = NoPack
          /\ pc \notin {"functions", "slurped", "done"}
          /\ \A k \in MalformedInitializers :
                Len(mGlobalSymbolDefinitionsInOrder) < k

\* A pass that aborted at an assignment to a field or an element, with the
\* entry of the assignment before it in the list.
C12_Witness ==
    /\ pc = "aborted"
    /\ \E k \in MalformedInitializers :
          /\ k >= 2
          /\ Len(mGlobalSymbolDefinitionsInOrder) = k - 1
          /\ getAsBinaryNode(AssignmentsOfRoot[k])
          /\ AssignmentsOfRoot[k].op = "EOpAssign"
          /\ getAsBinaryNode(AssignmentsOfRoot[k].left)
          /\ AssignmentsOfRoot[k].left.op = "EOpIndexDirect"


\* C13: an initializer whose right-hand side names a symbol that is neither
\* global by then nor a built-in is fatal: the root returns no Pack, the pass
\* never reaches the functions, and the list has no entry for that initializer
\* or a later one.  Hence in every Pack produced no value of
\* globalSymbolDefinitionsInOrder is a LocalSymbolId or an rvalue from which
\* one is reached.
C13_InitializersHaveNoLocals ==
    /\ InitializerTouchesLocals =>
          /\ pack = NoPack
          /\ pc \notin {"functions", "slurped", "done"}
          /\ \A k \in DOMAIN AssignmentsOfRoot :
                TouchesLocals(k) => Len(mGlobalSymbolDefinitionsInOrder) < k
    /\ Produced =>
          \A k \in DOMAIN ThePack.globalSymbolDefinitionsInOrder :
              LocalsOfValue(ThePack, ThePack.globalSymbolDefinitionsInOrder[k][2]) = {}

\* A pass that aborted at its second initializer, whose right-hand side adds
\* a literal to a symbol that is no global, in a root that is otherwise sound.
C13_Witness ==
    /\ pc = "aborted"
    /\ ~HasFatalCondition
    /\ Len(mGlobalSymbolDefinitionsInOrder) = 1
    /\ TouchesLocals(2)
    /\ mRValues.mLastId > 0


\* C14: the Pack of the program
\*     float x;  float f(float y) { return y + x; }
\* (the linker objects before or after the function) has the one global
\* symbol x of type float, no initializer and no prototype, and the one
\* definition f with the one parameter y, whose body is the one statement
\* Return with the operand Add(LocalSymbolId of y, GlobalSymbolId of x).
C14_GlobalAndFunction ==
    (Produced /\ ChildrenOfRoot \in {<<LinkerX, FunctionF>>, <<FunctionF, LinkerX>>}) =>
        LET P == ThePack
            f == IdOfFunctionName(P, "f(f1;")
            definition == P.functionDefinitions[f]
        IN /\ DOMAIN P.globalSymbols = {1}
           /\ P.strings[P.globalSymbols[1].name] = "x"
           /\ has_value(P.globalSymbols[1].type)
           /\ P.strings[P.types[value(P.globalSymbols[1].type)].name] = "float"
           /\ P.globalSymbolDefinitionsInOrder = << >>
           /\ P.functionPrototypes = {}
           /\ DOMAIN P.functionNames = {f}
           /\ DOMAIN P.functionDefinitions = {f}
           /\ P.functionDefinitionsInOrder = <<f>>
           /\ definition.name = f
           /\ P.strings[P.types[definition.returnType].name] = "float"
           /\ Len(definition.parameters) = 1
           /\ DOMAIN definition.localSymbols = {definition.parameters[1]}
           /\ P.strings[definition.localSymbols[definition.parameters[1]].name] = "y"
           /\ Len(P.statementBlocks[definition.body]) = 1
           /\ \E r \in DOMAIN P.rValues :
                 /\ P.statementBlocks[definition.body][1]
                       = BranchStatement("Return", Some(RValueId(r)))
                 /\ P.rValues[r]
                       = EvaluableRValue(Tag("Add"),
                             <<LocalSymbolId(definition.parameters[1]),
                               GlobalSymbolId(1)>>)
           /\ DOMAIN P.rValues = {1}
           /\ DOMAIN P.statementBlocks = {1}

\* The Pack of that program with the function before the linker objects.
C14_Witness ==
    /\ Produced
    /\ ChildrenOfRoot = <<FunctionF, LinkerX>>
    /\ ThePack.functionDefinitionsInOrder # << >>


\* What a constant of supported element kinds is in a Pack: the literal of
\* its one value, or the call of vec2, vec3 or vec4 over the literals of its
\* values in their order.
LiteralOf(const) == LiteralRValue(LiteralType[const.type], const.c)
VecName(n) == CASE n = 2 -> "vec2" [] n = 3 -> "vec3" [] n = 4 -> "vec4"
IsConstantLowered(P, node, v) ==
    /\ IsRValueId(v)
    /\ v.RValueId \in DOMAIN P.rValues
    /\ IF Len(node.constArray) = 1
       THEN P.rValues[v.RValueId] = LiteralOf(node.constArray[1])
       ELSE /\ "args" \in DOMAIN P.rValues[v.RValueId]
            /\ \E f \in DOMAIN P.functionNames :
                  /\ P.functionNames[f] = VecName(Len(node.constArray))
                  /\ P.rValues[v.RValueId].op = FunctionId(f)
            /\ Len(P.rValues[v.RValueId].args) = Len(node.constArray)
            /\ \A i \in DOMAIN node.constArray :
                  /\ IsRValueId(P.rValues[v.RValueId].args[i])
                  /\ P.rValues[P.rValues[v.RValueId].args[i].RValueId]
                        = LiteralOf(node.constArray[i])
\* The literals of a Pack hold one value each: those of the constants' elements.
ElementsOfConstants ==
    UNION {{node.constArray[i] : i \in DOMAIN node.constArray} :
              node \in {lit1, lit4, lit7, litVec2, litVec3, litVec4, litBVec2}}
LiteralsAreScalars(P) ==
    \A r \in DOMAIN P.rValues :
        "LiteralRValue" \in DOMAIN P.rValues[r] =>
            \E const \in ElementsOfConstants : P.rValues[r] = LiteralOf(const)

\* C15: in the Pack of a root with the function k, whose first statements
\* return constants of 1, 2, 3, 4 and 2 values of supported kinds, the operand
\* of the c-th Return is the literal of the one value, or else the
\* EvaluableRValue of the function vec2, vec3 or vec4 by the number of values
\* over the separately interned literals of the values in their order; no
\* literal of a Pack holds more than one value; and a root with a function
\* that returns a constant of no values, of several values that is no vector,
\* or of a vector type with more than 4 values returns no Pack.
C15_ConstantLowering ==
    /\ (Produced /\ RootHas(FunctionK)) =>
          \A c \in DOMAIN ConstantsOfK :
              /\ "BranchStatement" \in DOMAIN PackBody(ThePack, "k(i1;")[c]
              /\ PackBody(ThePack, "k(i1;")[c].BranchStatement.op = "Return"
              /\ has_value(PackBody(ThePack, "k(i1;")[c].BranchStatement.operand)
              /\ IsConstantLowered(ThePack, ConstantsOfK[c],
                     value(PackBody(ThePack, "k(i1;")[c].BranchStatement.operand))
    /\ Produced => LiteralsAreScalars(ThePack)
    /\ (\E c \in FatalConstants : RootHas(BodyOf(Return(c)))) =>
          /\ pack = NoPack
          /\ pc \notin {"slurped", "done"}
    /\ (RootHas(FunctionK) /\ pc = "aborted") =>
          (HasFatalCondition \/ InitializerTouchesLocals)

\* A Pack with k in which the literal 1.0 of an initializer is also the first
\* and the last argument of the vec4 call.
C15_Witness ==
    /\ Produced
    /\ RootHas(FunctionK)
    /\ RootHas(InitX)
    /\ \E r \in DOMAIN ThePack.rValues :
          /\ "args" \in DOMAIN ThePack.rValues[r]
          /\ Len(ThePack.rValues[r].args) = 4
          /\ ThePack.rValues[r].args[1] = ThePack.globalSymbolDefinitionsInOrder[1][2]
          /\ ThePack.rValues[r].args[4] = ThePack.rValues[r].args[1]
          /\ ThePack.rValues[r].args[2] # ThePack.rValues[r].args[1]


\* The values of a table of a Pack.
Range(f) == {f[x] : x \in DOMAIN f}

\* The four loops of k in a Pack: one LoopStatement each, after the Returns,
\* with the condition i < 4, the flag of the loop node and the block of the
\* one Break as body; the terminal is absent for the loop without one and for
\* the terminals z and 7, and the RValueId of PostIncrement(i) for i++.
LoopsOfKLowered(P) ==
    LET body == PackBody(P, "k(i1;")
        first == Len(ConstantsOfK)
        i == LocalSymbolId(PackDefinition(P, "k(i1;").parameters[1])
        four == RValueId(IdOfRValue(P, LiteralRValue("int", 4)))
        condition == EvaluableRValue(Tag("LessThan"), <<i, four>>)
        increment == EvaluableRValue(Tag("PostIncrement"), <<i>>)
        break == <<BranchStatement("Break", nullopt)>>
    IN /\ Len(body) = first + Len(LoopsOfK)
       /\ condition \in Range(P.rValues)
       /\ increment \in Range(P.rValues)
       /\ break \in Range(P.statementBlocks)
       /\ \A l \in DOMAIN LoopsOfK :
             body[first + l]
                 = LoopStatement(
                       RValueId(IdOfRValue(P, condition)),
                       IF l = 4 THEN Some(IdOfRValue(P, increment)) ELSE nullopt,
                       LoopsOfK[l].testFirst,
                       CHOOSE b \in DOMAIN P.statementBlocks :
                           P.statementBlocks[b] = break)

\* What lowering the terminals z and 7 would have left in the tables.
PrunedTerminalsLeftNothing(P) ==
    /\ "z" \notin Range(P.strings)
    /\ "uint" \notin Range(P.strings)
    /\ \A t \in DOMAIN P.types : P.strings[P.types[t].name] # "uint"
    /\ LiteralRValue("int", 7) \notin Range(P.rValues)
    /\ \A g \in DOMAIN P.globalSymbols : P.strings[P.globalSymbols[g].name] # "z"
    /\ DOMAIN PackDefinition(P, "k(i1;").localSymbols
          = {PackDefinition(P, "k(i1;").parameters[1]}

SomeInitializerLowered ==
    \/ mGlobalSymbolDefinitionsInOrder # << >>
    \/ pc = "sequences"
SomeFunctionLowered ==
    \/ mStatementBlocks # NewStore
    \/ mFunctionPrototypes # {}
    \/ mFunctionDefinitions # << >>
    \/ pc = "functions"
LinkerNames == {SymbolOf(id).accessName : id \in LinkerSymbolIds}

\* C17: in every order of the root's children the pass has three phases.
\* Once an initializer is being lowered, or a function, every symbol of every
\* linker-object child is a global symbol and no linker-object child is left;
\* once a function is being lowered, or the pass has returned, every
\* initializer of the root has its entry and no sequence is left.  So no
\* definition of a Pack has a local symbol with the name of a symbol of a
\* linker-object child, wherever that child is in the root.
C17_ThreePhases ==
    /\ (SomeInitializerLowered \/ SomeFunctionLowered \/ Produced) =>
          /\ linkerObjectNodes = << >>
          /\ LinkerSymbolIds \subseteq DOMAIN mGlobalSymbols.mMap
    /\ (SomeFunctionLowered \/ Produced) =>
          /\ sequenceNodes = << >>
          /\ Len(mGlobalSymbolDefinitionsInOrder) = Len(AssignmentsOfRoot)
    /\ Produced =>
          \A f \in DOMAIN ThePack.functionDefinitions :
              \A l \in DOMAIN ThePack.functionDefinitions[f].localSymbols :
                  ThePack.strings[ThePack.functionDefinitions[f].localSymbols[l].name]
                      \notin LinkerNames

\* A Pack of a root with a function first, a sequence second and linker
\* objects last, in which the function names a symbol of the linker objects
\* as a global next to a local.
C17_Witness ==
    /\ Produced
    /\ Len(ChildrenOfRoot) = 3
    /\ IsDefinition(ChildrenOfRoot[1])
    /\ IsSequence(ChildrenOfRoot[2])
    /\ IsLinkerObjects(ChildrenOfRoot[3])
    /\ \E r \in DOMAIN ThePack.rValues :
          /\ "args" \in DOMAIN ThePack.rValues[r]
          /\ Len(ThePack.rValues[r].args) = 2
          /\ IsLocalSymbolId(ThePack.rValues[r].args[1])
          /\ IsGlobalSymbolId(ThePack.rValues[r].args[2])
          /\ ThePack.strings[ThePack.globalSymbols[
                 ThePack.rValues[r].args[2].GlobalSymbolId].name] \in LinkerNames


\* The step of the pass that lowers the function child at the head of the
\* bucket, by the number of elements of the child.
NameInterned(store, after, name) ==
    /\ DOMAIN after.mMap = DOMAIN store.mMap \cup {name}
    /\ \A other \in DOMAIN store.mMap : after.mMap[other] = store.mMap[other]
PrototypeStep(node) ==
    /\ pc' # "aborted"
    /\ NameInterned(mFunctionNames, mFunctionNames', node.name)
    /\ mFunctionPrototypes'
          = mFunctionPrototypes \cup {mFunctionNames'.mMap[node.name]}
    /\ UNCHANGED <<mStrings, mTypes, mGlobalSymbols, mRValues, mStatementBlocks,
                   mFunctionDefinitions, mGlobalSymbolDefinitionsInOrder,
                   mFunctionDefinitionsInOrder>>
DefinitionStep(node) ==
    pc' # "aborted" =>
        /\ node.name \in DOMAIN mFunctionNames'.mMap
        /\ \A other \in DOMAIN mFunctionNames.mMap :
              mFunctionNames'.mMap[other] = mFunctionNames.mMap[other]
        /\ DOMAIN mFunctionDefinitions'
              = DOMAIN mFunctionDefinitions \cup {mFunctionNames'.mMap[node.name]}
        /\ \A f \in DOMAIN mFunctionDefinitions :
              f # mFunctionNames'.mMap[node.name]
                  => mFunctionDefinitions'[f] = mFunctionDefinitions[f]
        /\ mFunctionDefinitions'[mFunctionNames'.mMap[node.name]].name
              = mFunctionNames'.mMap[node.name]
        /\ mFunctionDefinitionsInOrder'
              = Append(mFunctionDefinitionsInOrder, mFunctionNames'.mMap[node.name])
        /\ UNCHANGED mFunctionPrototypes
RefusedStep ==
    /\ pc' = "aborted"
    /\ UNCHANGED members
FunctionStep ==
    pc = "functions" =>
        /\ (Len(Head(functionNodes).sequence) = 1
               /\ getAsAggregate(Head(functionNodes).sequence[1]))
              => PrototypeStep(Head(functionNodes))
        /\ Len(Head(functionNodes).sequence) = 2
              => DefinitionStep(Head(functionNodes))
        /\ Len(Head(functionNodes).sequence) \notin {1, 2} => RefusedStep

\* C18: lowering a function child of one element, a parameters aggregate,
\* adds the id of its name to the prototype set, interns the name if it is
\* new, and changes no other table or list; lowering a child of two elements
\* that is not refused puts the one definition of its id into the definition
\* map, leaves the definitions of other ids alone and appends the id to
\* functionDefinitionsInOrder; a child of any other number of elements aborts
\* the pass with nothing changed.
C18_FunctionChildren == [][FunctionStep]_vars

\* A pass that has lowered g, which calls f, and then the prototype of f,
\* whose name was interned by then.
C18_Witness ==
    /\ Produced
    /\ ChildrenOfRoot = <<FunctionG, PrototypeF>>
    /\ ThePack.functionPrototypes # {}
    /\ ThePack.functionDefinitionsInOrder = <<IdOfFunctionName(ThePack, "g(i1;f1;")>>


\* The identities of the symbol nodes the lowering meets in a node of any
\* kind; it does not descend into the operands of a swizzle.
RECURSIVE AllSymbolIdsIn(_)
AllSymbolIdsInOptional(o) == IF has_value(o) THEN AllSymbolIdsIn(value(o)) ELSE {}
AllSymbolIdsIn(node) ==
    IF getAsSymbolNode(node) THEN {node.id}
    ELSE IF getAsConstantUnion(node) THEN {}
    ELSE IF getAsUnaryNode(node) THEN AllSymbolIdsIn(node.operand)
    ELSE IF getAsBinaryNode(node)
    THEN IF node.op = "EOpVectorSwizzle" THEN {}
         ELSE AllSymbolIdsIn(node.left) \cup AllSymbolIdsIn(node.right)
    ELSE IF getAsSelectionNode(node)
    THEN AllSymbolIdsIn(node.condition) \cup AllSymbolIdsIn(node.trueBlock)
         \cup AllSymbolIdsInOptional(node.falseBlock)
    ELSE IF getAsAggregate(node)
    THEN UNION {AllSymbolIdsIn(node.sequence[i]) : i \in DOMAIN node.sequence}
    ELSE IF getAsLoopNode(node)
    THEN AllSymbolIdsIn(node.test) \cup AllSymbolIdsInOptional(node.terminal)
         \cup AllSymbolIdsIn(node.body)
    ELSE IF getAsBranchNode(node) THEN AllSymbolIdsInOptional(node.expression)
    ELSE AllSymbolIdsIn(node.condition) \cup AllSymbolIdsIn(node.body)
\* The names a symbol of a function child can give to a local symbol.
NamesIn(node) ==
    UNION {{SymbolOf(id).name, SymbolOf(id).accessName} : id \in AllSymbolIdsIn(node)}
DistinctIdentities(symbols) ==
    \A i, j \in DOMAIN symbols : symbols[i].id = symbols[j].id => i = j

\* The local symbols of one definition of a Pack against the function child
\* it was lowered from.
OwnLocalTable(P, definition, node) ==
    /\ DOMAIN definition.localSymbols
          = 1..Cardinality(DOMAIN definition.localSymbols)
    /\ DistinctIdentities(node.sequence[1].sequence) =>
          /\ definition.parameters
                = [i \in 1..Len(node.sequence[1].sequence) |-> i]
          /\ \A i \in DOMAIN definition.parameters :
                P.strings[definition.localSymbols[i].name]
                    = node.sequence[1].sequence[i].name
    /\ \A l \in DOMAIN definition.localSymbols :
          P.strings[definition.localSymbols[l].name] \in NamesIn(node)

\* C19: in every Pack the local symbols of each definition have the ids 1..n;
\* the parameters, when their identities differ pairwise, are the ids 1..p in
\* the order of their declaration, so the symbols first met in the body come
\* after them; and every local symbol of a definition has the name of a
\* symbol of its own function child, never one only another function names.
C19_OwnLocalTable ==
    Produced =>
        \A f \in DOMAIN ThePack.functionDefinitions :
            OwnLocalTable(ThePack, ThePack.functionDefinitions[f],
                          DefinitionOf(ThePack, f))

\* A Pack with two definitions: one with two parameters and a third local
\* symbol from its body, the other with a first local symbol of another name.
C19_Witness ==
    /\ Produced
    /\ \E f, g \in DOMAIN ThePack.functionDefinitions :
          /\ f # g
          /\ ThePack.functionDefinitions[g].parameters = <<1, 2>>
          /\ DOMAIN ThePack.functionDefinitions[g].localSymbols = {1, 2, 3}
          /\ 1 \in DOMAIN ThePack.functionDefinitions[f].localSymbols
          /\ ThePack.functionDefinitions[f].localSymbols[1].name
                # ThePack.functionDefinitions[g].localSymbols[1].name


\* The tables while a function is lowered, after its parameters i and w.
SlurperInFunction == slurpParameters(Slurper, <<symI, symW>>, 1, << >>).s

\* What slurpValueFromSymbol(s, node) = r has done, by the case of the node.
ResolvedInOrder(s, node, r) ==
    IF node.id \in DOMAIN s.mGlobalSymbols.mMap
    THEN /\ r.v = GlobalSymbolId(s.mGlobalSymbols.mMap[node.id].first)
         /\ r.s = s
    ELSE IF isBuiltIn(node.type)
    THEN /\ r.s.ok
         /\ r.v = GlobalSymbolId(s.mGlobalSymbols.mLastId + 1)
         /\ DOMAIN r.s.mGlobalSymbols.mMap
               = DOMAIN s.mGlobalSymbols.mMap \cup {node.id}
         /\ r.s.mGlobalSymbols.mMap[node.id]
               = [first |-> s.mGlobalSymbols.mLastId + 1,
                  second |-> Symbol(r.s.mStrings.mMap[node.accessName], nullopt)]
         /\ \A id \in DOMAIN s.mGlobalSymbols.mMap :
               r.s.mGlobalSymbols.mMap[id] = s.mGlobalSymbols.mMap[id]
         /\ r.s.localSymbols = s.localSymbols
         /\ r.s.mTypes = s.mTypes
    ELSE /\ r.s.mGlobalSymbols = s.mGlobalSymbols
         /\ r.s.ok = slurpType(s, node.type).s.ok
         /\ r.s.ok =>
               /\ r.v = LocalSymbolId(r.s.localSymbols.mMap[node.id].first)
               /\ IF node.id \in DOMAIN s.localSymbols.mMap
                  THEN r.s.localSymbols = s.localSymbols
                  ELSE /\ r.s.localSymbols.mMap[node.id]
                             = [first |-> s.localSymbols.mLastId + 1,
                                second |->
                                    Symbol(r.s.mStrings.mMap[node.accessName],
                                           Some(slurpType(r.s, node.type).v))]
                       /\ \A id \in DOMAIN s.localSymbols.mMap :
                             r.s.localSymbols.mMap[id] = s.localSymbols.mMap[id]

\* The identities met in expression position: in the right-hand side of an
\* initializer or in a function child.
ExpressionIds ==
    UNION {RightIds(AssignmentsOfRoot[k]) : k \in DOMAIN AssignmentsOfRoot}
    \cup UNION {AllSymbolIdsIn(DefinitionsOfRoot[k]) : k \in DOMAIN DefinitionsOfRoot}
\* The identities the root declares: a linker object's symbol or the
\* left-hand side of an initializer.
DeclaredIds ==
    LinkerSymbolIds
    \cup UNION {LeftIds(AssignmentsOfRoot[k]) : k \in DOMAIN AssignmentsOfRoot}

\* C20: lowering a symbol node against the tables of any state of a pass,
\* with no local symbols or with those of two parameters, returns the
\* GlobalSymbolId of its identity and changes nothing when the identity is a
\* key of the global table; else registers a built-in as a global symbol
\* with an absent type and leaves the local table alone; else registers it
\* in the local table with its lowered type and leaves the global table
\* alone.  Hence, in the global table of a pass that has not aborted, a
\* symbol with an absent type is a built-in met in expression position
\* before any declaration of it, and a symbol that is not built-in is one the
\* root declares.
C20_SymbolResolution ==
    /\ \A symbol \in AllSymbols :
          /\ ResolvedInOrder(Slurper, symbol,
                             slurpValueFromSymbol(Slurper, symbol))
          /\ ResolvedInOrder(SlurperInFunction, symbol,
                             slurpValueFromSymbol(SlurperInFunction, symbol))
    /\ pc # "aborted" =>
          \A id \in DOMAIN mGlobalSymbols.mMap :
              /\ mGlobalSymbols.mMap[id].second.type = nullopt =>
                    /\ isBuiltIn(SymbolOf(id).type)
                    /\ id \in ExpressionIds
                    /\ ~FirstOccurrenceHasType(id)
              /\ ~isBuiltIn(SymbolOf(id).type) => id \in DeclaredIds

\* A pass has produced a Pack: its global table holds a built-in with an
\* absent type and a declared symbol that an expression names, and
\* a function has a local symbol that is not a parameter.
C20_Witness ==
    /\ Produced
    /\ \E id \in DOMAIN mGlobalSymbols.mMap :
          mGlobalSymbols.mMap[id].second.type = nullopt
    /\ \E id \in DOMAIN mGlobalSymbols.mMap :
          /\ ~isBuiltIn(SymbolOf(id).type)
          /\ id \in ExpressionIds
    /\ \E f \in DOMAIN ThePack.functionDefinitions :
          Cardinality(DOMAIN ThePack.functionDefinitions[f].localSymbols)
              > Len(ThePack.functionDefinitions[f].parameters)


(***************************************************************************)
(* Properties of the lowering operators, over the log of LowerSpec.        *)
(***************************************************************************)
LoweredBy(call) == {i \in DOMAIN lowered : lowered[i].call = call /\ lowered[i].ok}

\* The children of a block that make a statement, in their order: bare
\* sequences opened at any depth, stray symbols and constants left out.
RECURSIVE StatementNodes(_)
StatementNodes(node) ==
    IF getAsAggregate(node) /\ node.op = "EOpSequence"
    THEN Concat([i \in DOMAIN node.sequence |-> StatementNodes(node.sequence[i])])
    ELSE IF getAsSymbolNode(node) \/ getAsConstantUnion(node) THEN << >>
    ELSE <<node>>

\* The statement list a StatementBlockId stands for.
StatementsOfBlock(id) ==
    CHOOSE statements \in DOMAIN mStatementBlocks.mMap :
        mStatementBlocks.mMap[statements] = id

\* Whether a statement is what one child lowers to, in the tables as they are.
IsStatementOf(statement, node) ==
    IF getAsLoopNode(node) THEN DOMAIN statement = {"LoopStatement"}
    ELSE IF getAsBranchNode(node) THEN DOMAIN statement = {"BranchStatement"}
    ELSE IF getAsSwitchNode(node) THEN DOMAIN statement = {"SwitchStatement"}
    ELSE IF getAsSelectionNode(node) THEN DOMAIN statement = {"IfStatement"}
    ELSE statement = slurpValue(SlurperOfFunction, node).v

\* C21: the statement list of every block lowered has one statement per child
\* that makes one, in the children's order, with bare sequences opened at
\* any depth and stray symbols and constants left out; two blocks with the
\* same such children get the same StatementBlockId, and a block without any
\* gets the id of the empty statement list.
C21_BlocksFlattened ==
    \A i \in LoweredBy("slurpStatementBlock") :
        /\ Len(StatementsOfBlock(lowered[i].v)) = Len(StatementNodes(lowered[i].node))
        /\ \A k \in DOMAIN StatementNodes(lowered[i].node) :
              IsStatementOf(StatementsOfBlock(lowered[i].v)[k],
                            StatementNodes(lowered[i].node)[k])
        /\ \A j \in LoweredBy("slurpStatementBlock") :
              StatementNodes(lowered[i].node) = StatementNodes(lowered[j].node)
                  => lowered[i].v = lowered[j].v
        /\ StatementNodes(lowered[i].node) = << >> =>
              lowered[i].v = mStatementBlocks.mMap[<< >>]

\* A nested block and its flat form were lowered, and a block of stray
\* symbols and constants after the empty block.
C21_Witness ==
    \/ /\ Len(lowered) = 2
       /\ lowered[1].node = flatBlock /\ lowered[2].node = nestedBlock
       /\ lowered[1].ok /\ lowered[2].ok
       /\ Len(StatementsOfBlock(lowered[2].v)) = 3
    \/ /\ Len(lowered) = 2
       /\ lowered[1].node = strayOnlyBlock /\ lowered[2].node = emptyBlock
       /\ lowered[1].ok /\ lowered[2].ok /\ lowered[1].v = lowered[2].v


\* The operands of an operator node, left to right.
Operands(node) ==
    IF getAsUnaryNode(node) THEN <<node.operand>>
    ELSE IF getAsBinaryNode(node) THEN <<node.left, node.right>>
    ELSE node.sequence
IsOperatorNode(node) ==
    \/ getAsUnaryNode(node)
    \/ getAsBinaryNode(node) /\ node.op # "EOpVectorSwizzle"
    \/ getAsAggregate(node)
          /\ node.op \notin {"EOpFunction", "EOpLinkerObjects", "EOpParameters",
                             "EOpSequence", "EOpFunctionCall"}

\* The id a table gives an entry, by value or by key.
ByValueTables == {"mStrings", "mTypes", "mRValues", "mFunctionNames", "mStatementBlocks"}
ByKeyTables == {"mGlobalSymbols", "localSymbols"}
IdIn(s, table, entry) ==
    IF table \in ByKeyTables THEN s[table].mMap[entry].first ELSE s[table].mMap[entry]

\* The Slurper after the first k operands of a node were lowered, one after
\* the other, from a Slurper s.
RECURSIVE AfterOperands(_, _, _)
AfterOperands(s, node, k) ==
    IF k = 0 THEN s
    ELSE slurpValue(AfterOperands(s, node, k - 1), Operands(node)[k]).s

\* The entries of a table first made while operand k of a node is lowered.
FirstMadeFor(s, node, k, table) ==
    DOMAIN AfterOperands(s, node, k)[table].mMap
        \ DOMAIN AfterOperands(s, node, k - 1)[table].mMap
\* The entries first made by the node's own operator.
FirstMadeForOperator(l, table) ==
    DOMAIN l.after[table].mMap
        \ DOMAIN AfterOperands(l.before, l.node, Len(Operands(l.node)))[table].mMap

OperandsBeforeOperator(l) ==
    /\ \A table \in ByValueTables \cup ByKeyTables :
       \A k, m \in DOMAIN Operands(l.node) :
          k < m =>
             \A e \in FirstMadeFor(l.before, l.node, k, table) :
             \A f \in FirstMadeFor(l.before, l.node, m, table) :
                 /\ e \in DOMAIN l.after[table].mMap
                 /\ f \in DOMAIN l.after[table].mMap
                 /\ IdIn(l.after, table, e) < IdIn(l.after, table, f)
    /\ \A k \in DOMAIN Operands(l.node) :
          /\ \A e \in FirstMadeFor(l.before, l.node, k, "mRValues") :
                /\ e \in DOMAIN l.after.mRValues.mMap
                /\ l.after.mRValues.mMap[e] < l.v.RValueId
          /\ \A e \in FirstMadeFor(l.before, l.node, k, "mFunctionNames") :
                /\ e \in DOMAIN l.after.mFunctionNames.mMap
                /\ \A name \in FirstMadeForOperator(l, "mFunctionNames") :
                      l.after.mFunctionNames.mMap[e]
                          < l.after.mFunctionNames.mMap[name]

\* C22: for every unary, binary (no swizzle) and n-ary operator node lowered,
\* in each table the entries first made for an operand have smaller ids than
\* those first made for an operand to its right; the RValueIds first made for
\* the operands are smaller than the node's own; and a function name only the
\* node's own operator brings in has a larger FunctionId than the names its
\* operands bring in.
C22_OperandsLeftToRight ==
    \A i \in LoweredBy("slurpValue") :
        IsOperatorNode(lowered[i].node) => OperandsBeforeOperator(lowered[i])

\* f(y) + sin(w) was lowered into empty tables: both operands and the
\* operator made entries; or clamp(y, sin(w), f(1.0)) was, and clamp is a
\* new function name after sin and f.
C22_Witness ==
    /\ Len(lowered) = 1
    /\ lowered[1].ok
    /\ \/ /\ lowered[1].node = addCallSin
          /\ DOMAIN lowered[1].after.mFunctionNames.mMap = {"f(f1;", "sin"}
          /\ DOMAIN lowered[1].after.localSymbols.mMap = {symY.id, symW.id}
          /\ lowered[1].v.RValueId = 3
       \/ /\ lowered[1].node = clampOf
          /\ lowered[1].after.mFunctionNames.mMap["clamp"] = 3


\* The operator of the RValue a lowering returned.
RValueOf(l) ==
    CHOOSE rvalue \in DOMAIN l.after.mRValues.mMap :
        l.after.mRValues.mMap[rvalue] = l.v.RValueId
OperatorOf(l) == RValueOf(l).op

\* The base operator of each compound assignment, and the tags by name.
BaseOf ==
    [EOpAddAssign |-> "EOpAdd", EOpSubAssign |-> "EOpSub", EOpMulAssign |-> "EOpMul",
     EOpVectorTimesMatrixAssign |-> "EOpMul", EOpVectorTimesScalarAssign |-> "EOpMul",
     EOpMatrixTimesScalarAssign |-> "EOpMul", EOpMatrixTimesMatrixAssign |-> "EOpMul",
     EOpDivAssign |-> "EOpDiv", EOpModAssign |-> "EOpMod", EOpAndAssign |-> "EOpAnd",
     EOpInclusiveOrAssign |-> "EOpInclusiveOr",
     EOpExclusiveOrAssign |-> "EOpExclusiveOr",
     EOpLeftShiftAssign |-> "EOpLeftShift", EOpRightShiftAssign |-> "EOpRightShift"]
TagOfBase ==
    [EOpAdd |-> "Add", EOpSub |-> "Sub", EOpMul |-> "Mul", EOpDiv |-> "Div",
     EOpMod |-> "Mod", EOpAnd |-> "And", EOpInclusiveOr |-> "InclusiveOr",
     EOpExclusiveOr |-> "ExclusiveOr", EOpLeftShift |-> "LeftShift",
     EOpRightShift |-> "RightShift"]
LoweredCompound ==
    {i \in LoweredBy("slurpValue") :
        getAsBinaryNode(lowered[i].node) /\ lowered[i].node.op \in DOMAIN BaseOf}
LoweredBase ==
    {i \in LoweredBy("slurpValue") :
        getAsBinaryNode(lowered[i].node) /\ lowered[i].node.op \in DOMAIN TagOfBase}

\* C23 as stated: every compound assignment lowered has the tag of its base
\* operator, so a += b and a + b have one operator tag.
C23_CompoundAsBase ==
    \A i \in LoweredCompound :
        /\ OperatorOf(lowered[i]) = Tag(TagOfBase[BaseOf[lowered[i].node.op]])
        /\ \A j \in LoweredBase :
              lowered[j].node.op = BaseOf[lowered[i].node.op]
                  => OperatorOf(lowered[j]) = OperatorOf(lowered[i])

\* C23 amended: every compound assignment lowered has the tag of its base
\* operator with Assign appended (AddAssign, ..., RightShiftAssign), the
\* vector and matrix forms of *= all MulAssign; a base operator has its own
\* tag; so a += b and a + b never have one operator tag, nor one RValueId.
C23_CompoundTagsKept ==
    /\ \A i \in LoweredCompound :
          /\ OperatorOf(lowered[i])
                = Tag(TagOfBase[BaseOf[lowered[i].node.op]] \o "Assign")
          /\ \A j \in LoweredBase :
                /\ OperatorOf(lowered[j]) # OperatorOf(lowered[i])
                /\ lowered[j].v # lowered[i].v
    /\ \A j \in LoweredBase :
          OperatorOf(lowered[j]) = Tag(TagOfBase[lowered[j].node.op])

\* y += 1.0 and y + 1.0 were lowered, one after the other.
C23_Witness ==
    /\ Len(lowered) = 2
    /\ lowered[1].node = IntermBinary("EOpAddAssign", symY, lit1, tFloat)
    /\ lowered[2].node = IntermBinary("EOpAdd", symY, lit1, tFloat)
    /\ lowered[1].ok /\ lowered[2].ok
    /\ RValueOf(lowered[1]).args = RValueOf(lowered[2]).args


\* The function name of the RValue a lowering returned.
FunctionNameOf(l) ==
    CHOOSE name \in DOMAIN l.after.mFunctionNames.mMap :
        l.after.mFunctionNames.mMap[name] = OperatorOf(l).FunctionId

\* The texture-sampling operators: their suffix and their ARB/EXT suffix.
SuffixOfTexture ==
    [EOpTexture |-> "", EOpTextureProj |-> "Proj", EOpTextureLod |-> "Lod",
     EOpTextureProjLod |-> "ProjLod", EOpTextureGrad |-> "Grad",
     EOpTextureProjGrad |-> "ProjGrad"]
ExtensionOfTexture ==
    [EOpTexture |-> "", EOpTextureProj |-> "", EOpTextureLod |-> "",
     EOpTextureProjLod |-> "", EOpTextureGrad |-> "ARB", EOpTextureProjGrad |-> "ARB"]
DimensionName ==
    [Esd1D |-> "1D", Esd2D |-> "2D", Esd3D |-> "3D", EsdCube |-> "Cube",
     EsdRect |-> "2DRect"]
LoweredTexture ==
    {i \in DOMAIN lowered :
        /\ lowered[i].call = "slurpValue"
        /\ getAsAggregate(lowered[i].node)
        /\ lowered[i].node.op \in DOMAIN SuffixOfTexture}
\* The name of a texture function for version 100 and a sampler argument.
NameForSampler(op, sampler) ==
    (IF sampler.shadow THEN "shadow" ELSE "texture") \o DimensionName[sampler.dim]
        \o SuffixOfTexture[op] \o ExtensionOfTexture[op]

\* C24: a texture-sampling operator lowered for a version above 100 is the
\* function "texture" + suffix, whatever its first argument is and also
\* without one, and without the ARB/EXT suffix; for a version up to 100 it
\* is shadow or texture, then the dimension name, the suffix and the ARB/EXT
\* suffix, and the lowering is fatal without a first argument or for a
\* sampler of another dimension.
C24_TextureNames ==
    \A i \in LoweredTexture :
        IF lowered[i].before.mVersion > 100
        THEN /\ lowered[i].ok
             /\ FunctionNameOf(lowered[i])
                   = "texture" \o SuffixOfTexture[lowered[i].node.op]
        ELSE IF \/ lowered[i].node.sequence = << >>
                \/ lowered[i].node.sequence[1].type.sampler.dim
                       \notin DOMAIN DimensionName
        THEN ~lowered[i].ok
        ELSE /\ lowered[i].ok
             /\ FunctionNameOf(lowered[i])
                   = NameForSampler(lowered[i].node.op,
                                    lowered[i].node.sequence[1].type.sampler)

\* textureProjGrad of a shadow cube sampler was lowered for version 100, or
\* textureGrad without arguments for version 110, or texture of a buffer
\* sampler was refused for version 100.
C24_Witness ==
    /\ Len(lowered) = 1
    /\ lowered[1].call = "slurpValue"
    /\ getAsAggregate(lowered[1].node)
    /\ \/ /\ mVersion = 100 /\ lowered[1].ok
          /\ lowered[1].node.op = "EOpTextureProjGrad"
          /\ FunctionNameOf(lowered[1]) = "shadowCubeProjGradARB"
       \/ /\ mVersion = 110 /\ lowered[1].ok
          /\ lowered[1].node.op = "EOpTextureGrad"
          /\ lowered[1].node.sequence = << >>
          /\ FunctionNameOf(lowered[1]) = "textureGrad"
       \/ /\ mVersion = 100 /\ ~lowered[1].ok
          /\ lowered[1].node.op = "EOpTexture"
          /\ lowered[1].node.sequence # << >>


\* The name of the type a lowering of a type returned.
TypeNameOf(l) ==
    CHOOSE name \in DOMAIN l.after.mStrings.mMap :
        l.after.mStrings.mMap[name]
            = (CHOOSE type \in DOMAIN l.after.mTypes.mMap :
                  l.after.mTypes.mMap[type] = l.v).name

\* The index of a shape in the 13-entry tables, the shapes that have one, and
\* the names of the shapes.
IndexOfShape(type) ==
    IF isMatrix(type) THEN 4 + (type.matrixCols - 2) * 3 + (type.matrixRows - 2)
    ELSE type.vectorSize - 1
HasIndex(type) ==
    IF isMatrix(type)
    THEN type.matrixCols \in 2..4 /\ type.matrixRows \in 2..4
    ELSE type.vectorSize \in 1..4
Digit == [n \in 1..4 |-> <<"1", "2", "3", "4">>[n]]
NameOfShape(type) ==
    IF isMatrix(type)
    THEN (IF type.basicType = "EbtDouble" THEN "dmat" ELSE "mat")
         \o Digit[type.matrixCols]
         \o (IF type.matrixCols = type.matrixRows THEN ""
             ELSE "x" \o Digit[type.matrixRows])
    ELSE IF type.vectorSize = 1
    THEN (IF type.basicType = "EbtDouble" THEN "double" ELSE "float")
    ELSE (IF type.basicType = "EbtDouble" THEN "dvec" ELSE "vec")
         \o Digit[type.vectorSize]
TableOf(type) ==
    IF type.basicType = "EbtDouble" THEN DOUBLE_TYPE_NAMES ELSE FLOAT_TYPE_NAMES
LoweredTypes ==
    {i \in DOMAIN lowered :
        /\ lowered[i].call = "slurpType"
        /\ lowered[i].node.basicType \in {"EbtFloat", "EbtDouble"}}

\* C25: a float or double type lowered with a vector size of 1..4, or as a
\* matrix of 2..4 columns and rows, has an index inside the table of 13
\* names, its name is the entry at that index and is the name of its shape
\* (float, vec2..vec4, mat2, mat2x3, ..., mat4, and the d-forms), and two
\* types of one basic type and different shapes have different indices; with
\* any other vector size, column count or row count the lowering is fatal.
C25_TypeNameIndex ==
    \A i \in LoweredTypes :
        IF HasIndex(lowered[i].node)
        THEN /\ lowered[i].ok
             /\ IndexOfShape(lowered[i].node) \in 0..12
             /\ Len(TableOf(lowered[i].node)) = 13
             /\ TypeNameOf(lowered[i])
                   = TableOf(lowered[i].node)[IndexOfShape(lowered[i].node) + 1]
             /\ TypeNameOf(lowered[i]) = NameOfShape(lowered[i].node)
             /\ \A j \in LoweredTypes :
                   (/\ HasIndex(lowered[j].node)
                    /\ lowered[j].node.basicType = lowered[i].node.basicType
                    /\ lowered[j].node # lowered[i].node)
                   => /\ IndexOfShape(lowered[j].node) # IndexOfShape(lowered[i].node)
                      /\ TypeNameOf(lowered[j]) # TypeNameOf(lowered[i])
        ELSE ~lowered[i].ok

\* mat2x3 and then mat3x2 were lowered, or a matrix of five columns was
\* refused.
C25_Witness ==
    \/ /\ Len(lowered) = 2
       /\ lowered[1].call = "slurpType" /\ lowered[2].call = "slurpType"
       /\ lowered[1].node = MatrixType("EbtFloat", 2, 3)
       /\ lowered[2].node = MatrixType("EbtFloat", 3, 2)
       /\ lowered[1].ok /\ lowered[2].ok
       /\ TypeNameOf(lowered[1]) = "mat2x3" /\ TypeNameOf(lowered[2]) = "mat3x2"
    \/ /\ Len(lowered) = 1
       /\ lowered[1].call = "slurpType"
       /\ lowered[1].node = MatrixType("EbtDouble", 5, 2)
       /\ ~lowered[1].ok


\* The typed nodes lowered in statement position or as the terminal of a
\* loop, anywhere inside a block: stray symbols and constants are not.
RECURSIVE StatementPositions(_)
StatementPositionsOfOptional(o) ==
    IF has_value(o) THEN StatementPositions(value(o)) ELSE {}
StatementPositions(node) ==
    IF getAsLoopNode(node)
    THEN (IF /\ has_value(node.terminal)
             /\ ~getAsSymbolNode(value(node.terminal))
             /\ ~getAsConstantUnion(value(node.terminal))
          THEN {value(node.terminal)} ELSE {})
         \cup StatementPositions(node.body)
    ELSE IF getAsBranchNode(node) THEN {}
    ELSE IF getAsSwitchNode(node) THEN StatementPositions(node.body)
    ELSE IF getAsSelectionNode(node)
    THEN StatementPositions(node.trueBlock)
         \cup StatementPositionsOfOptional(node.falseBlock)
    ELSE IF getAsAggregate(node) /\ node.op = "EOpSequence"
    THEN UNION {StatementPositions(node.sequence[i]) : i \in DOMAIN node.sequence}
    ELSE IF getAsSymbolNode(node) \/ getAsConstantUnion(node) THEN {}
    ELSE {node}
\* The block of a logged lowering of a block or of a function child.
BlockOfLowering(l) ==
    IF l.call = "slurpFunctionDefinition" THEN l.node.sequence[2] ELSE l.node
LoweredBlocks ==
    {i \in DOMAIN lowered :
        lowered[i].call \in {"slurpStatementBlock", "slurpFunctionDefinition"}}
IsSymbolId(v) == IsGlobalSymbolId(v) \/ IsLocalSymbolId(v)

\* C26: an expression lowered returns a GlobalSymbolId or a LocalSymbolId
\* exactly when it is a symbol node, and an RValueId otherwise; no node
\* lowered in statement position or as a loop terminal is a symbol, each of
\* them lowers to an RValueId, and no block or function body lowered is
\* refused, with stray symbols as statements and as loop terminals or not.
C26_OnlySymbolsAreSymbolIds ==
    /\ \A i \in LoweredBy("slurpValue") :
          /\ IsSymbolId(lowered[i].v) <=> getAsSymbolNode(lowered[i].node)
          /\ IsRValueId(lowered[i].v) <=> ~getAsSymbolNode(lowered[i].node)
    /\ \A i \in LoweredBlocks :
          /\ lowered[i].ok
          /\ \A node \in StatementPositions(BlockOfLowering(lowered[i])) :
                /\ ~getAsSymbolNode(node)
                /\ slurpValue(lowered[i].after, node).s.ok
                /\ IsRValueId(slurpValue(lowered[i].after, node).v)

\* A symbol and an operator were lowered as expressions, or a block with a
\* stray symbol among its statements and a function with a symbol as the
\* terminal of a loop.
C26_Witness ==
    /\ Len(lowered) = 2
    /\ lowered[1].ok /\ lowered[2].ok
    /\ \/ /\ lowered[1].node = symGl /\ lowered[2].node = addCallSin
          /\ lowered[1].call = "slurpValue" /\ lowered[2].call = "slurpValue"
          /\ IsGlobalSymbolId(lowered[1].v) /\ IsRValueId(lowered[2].v)
       \/ /\ lowered[1].node = strayBlock /\ lowered[2].node = FunctionK
          /\ lowered[1].call = "slurpStatementBlock"


LoweredSwizzles ==
    {i \in LoweredBy("slurpValue") :
        getAsBinaryNode(lowered[i].node) /\ lowered[i].node.op = "EOpVectorSwizzle"}
\* The tables of a Slurper other than the RValues.
OtherTables(s) == [s EXCEPT !.mRValues = NewStore]

\* C27: every swizzle lowered returns the RValueId of the one VectorSwizzle
\* node without arguments, whatever its base and its components are; the
\* lowering makes no entry in any table but that one RValue, so nothing is
\* made for the base or for the expressions inside it; and a function whose
\* body names gl_FragCoord only as the base of a swizzle leaves the global
\* and local symbols without it.
C27_SwizzleDropsBase ==
    /\ \A i \in LoweredSwizzles :
          /\ RValueOf(lowered[i]) = EvaluableRValue(Tag("VectorSwizzle"), << >>)
          /\ OtherTables(lowered[i].after) = OtherTables(lowered[i].before)
          /\ DOMAIN lowered[i].after.mRValues.mMap
                = DOMAIN lowered[i].before.mRValues.mMap \cup {RValueOf(lowered[i])}
          /\ \A j \in LoweredSwizzles : lowered[j].v = lowered[i].v
    /\ \A i \in LoweredBy("slurpFunctionDefinition") :
          (/\ lowered[i].node = FunctionG
           /\ symGl.id \notin DOMAIN lowered[i].before.mGlobalSymbols.mMap)
          => /\ symGl.id \notin DOMAIN lowered[i].after.mGlobalSymbols.mMap
             /\ "gl_FragCoord" \notin DOMAIN lowered[i].after.mStrings.mMap

\* The swizzle of an expression and then the swizzle of a built-in with other
\* components were lowered into empty tables, and the tables hold one RValue.
C27_Witness ==
    /\ Len(lowered) = 2
    /\ lowered[1].node = swizzleSum /\ lowered[2].node = swizzleGl
    /\ lowered[1].ok /\ lowered[2].ok
    /\ lowered[1].v = lowered[2].v
    /\ mRValues.mLastId = 1
    /\ mFunctionNames = NewStore


\* The id a symbol of a function child has in the tables its lowering left.
IdOfSymbol(l, id) ==
    IF id \in DOMAIN l.after.mGlobalSymbols.mMap
    THEN GlobalSymbolId(l.after.mGlobalSymbols.mMap[id].first)
    ELSE IF id \in DOMAIN l.after.localSymbols.mMap
    THEN LocalSymbolId(l.after.localSymbols.mMap[id].first)
    ELSE nullopt
\* The shape of a node: the node with each symbol replaced by its id, and
\* with the type of its first operand kept where an operator is chosen by it.
RECURSIVE ShapeOf(_, _)
ShapeOfOptional(l, o) == IF has_value(o) THEN Some(ShapeOf(l, value(o))) ELSE nullopt
ShapeOf(l, node) ==
    IF getAsSymbolNode(node) THEN [kind |-> "Symbol", id |-> IdOfSymbol(l, node.id)]
    ELSE IF getAsConstantUnion(node) THEN node
    ELSE IF getAsUnaryNode(node)
    THEN [kind |-> "Unary", op |-> node.op, type |-> node.type,
          arg1Type |-> node.operand.type, operand |-> ShapeOf(l, node.operand)]
    ELSE IF getAsBinaryNode(node)
    THEN [kind |-> "Binary", op |-> node.op, type |-> node.type,
          arg1Type |-> node.left.type, left |-> ShapeOf(l, node.left),
          right |-> ShapeOf(l, node.right)]
    ELSE IF getAsSelectionNode(node)
    THEN [kind |-> "Selection", condition |-> ShapeOf(l, node.condition),
          trueBlock |-> ShapeOf(l, node.trueBlock),
          falseBlock |-> ShapeOfOptional(l, node.falseBlock)]
    ELSE IF getAsAggregate(node)
    THEN [kind |-> "Aggregate", op |-> node.op, name |-> node.name,
          type |-> node.type,
          arg1Type |-> IF Len(node.sequence) > 0 /\ getAsTyped(node.sequence[1])
                       THEN Some(node.sequence[1].type) ELSE nullopt,
          sequence |-> [i \in DOMAIN node.sequence |-> ShapeOf(l, node.sequence[i])]]
    ELSE IF getAsLoopNode(node)
    THEN [kind |-> "Loop", testFirst |-> node.testFirst,
          test |-> ShapeOf(l, node.test),
          terminal |-> ShapeOfOptional(l, node.terminal),
          body |-> ShapeOf(l, node.body)]
    ELSE IF getAsBranchNode(node)
    THEN [kind |-> "Branch", flowOp |-> node.flowOp,
          expression |-> ShapeOfOptional(l, node.expression)]
    ELSE [kind |-> "Switch", condition |-> ShapeOf(l, node.condition),
          body |-> ShapeOf(l, node.body)]

LoweredDefinitions ==
    {i \in LoweredBy("slurpFunctionDefinition") : Len(lowered[i].node.sequence) = 2}
\* The definition a lowering of a function child left in the definitions.
DefinitionLeftBy(l) ==
    l.after.mFunctionDefinitions[l.after.mFunctionNames.mMap[l.node.name]]
\* The names and types of the local symbols of a definition, by id.
DeclarationsOf(l) ==
    [id \in DOMAIN DefinitionLeftBy(l).localSymbols |->
        CHOOSE symbol \in {SymbolOf(k) : k \in DOMAIN l.after.localSymbols.mMap} :
            l.after.localSymbols.mMap[symbol.id].first = id]
\* The block of statements behind a StatementBlockId.
BlockOf(l, id) ==
    CHOOSE block \in DOMAIN l.after.mStatementBlocks.mMap :
        l.after.mStatementBlocks.mMap[block] = id

\* C28: two function children of different names whose bodies have the same
\* shape over equal symbol ids get the same StatementBlockId for their
\* bodies, and behind it the same statements with the same RValueIds, also
\* when the local symbols of the two definitions are other declarations; and
\* the local symbols of every definition start again at 1.
C28_SameShapeSameId ==
    \A i, j \in LoweredDefinitions :
        /\ DOMAIN DefinitionLeftBy(lowered[i]).localSymbols
              = 1..Cardinality(DOMAIN lowered[i].after.localSymbols.mMap)
        /\ (/\ lowered[i].node.name # lowered[j].node.name
            /\ ShapeOf(lowered[i], lowered[i].node.sequence[2])
                  = ShapeOf(lowered[j], lowered[j].node.sequence[2]))
           => /\ DefinitionLeftBy(lowered[i]).body = DefinitionLeftBy(lowered[j]).body
              /\ BlockOf(lowered[i], DefinitionLeftBy(lowered[i]).body)
                    = BlockOf(lowered[j], DefinitionLeftBy(lowered[j]).body)

\* f and then h were lowered: one body and one sum for both, over local
\* symbols 1 and 2 that are y and x in f and w and v in h.
C28_Witness ==
    /\ Len(lowered) = 2
    /\ lowered[1].node = FunctionF /\ lowered[2].node = FunctionH
    /\ lowered[1].ok /\ lowered[2].ok
    /\ DefinitionLeftBy(lowered[2]).name # DefinitionLeftBy(lowered[1]).name
    /\ DefinitionLeftBy(lowered[2]).body
          = lowered[2].after.mFunctionDefinitions[
                DefinitionLeftBy(lowered[1]).name].body
    /\ mRValues.mMap[EvaluableRValue(Tag("Add"),
                         <<LocalSymbolId(1), LocalSymbolId(2)>>)] = 1
    /\ mRValues.mLastId = 1
    /\ DeclarationsOf(lowered[1]) = <<symY, symX>>
    /\ DeclarationsOf(lowered[2]) = <<symW, symV>>
    /\ DefinitionLeftBy(lowered[1]).localSymbols # DefinitionLeftBy(lowered[2]).localSymbols


(***************************************************************************)
(* Properties of the function definitions of a Pack, over Spec.            *)
(***************************************************************************)
\* C29: in every Pack produced functionDefinitionsInOrder holds no FunctionId
\* twice, is as long as the definition map has entries, and holds exactly
\* the keys of the definition map.
C29_DefinitionsListedOnce ==
    Produced =>
        /\ \A i, j \in DOMAIN ThePack.functionDefinitionsInOrder :
              ThePack.functionDefinitionsInOrder[i]
                  = ThePack.functionDefinitionsInOrder[j] => i = j
        /\ Len(ThePack.functionDefinitionsInOrder)
              = Cardinality(DOMAIN ThePack.functionDefinitions)
        /\ {ThePack.functionDefinitionsInOrder[i] :
               i \in DOMAIN ThePack.functionDefinitionsInOrder}
              = DOMAIN ThePack.functionDefinitions


(***************************************************************************)
(* Properties of the placeholder of an unknown operator, over LowerSpec.   *)
(***************************************************************************)
\* An operator that has no case in the switch of
\* glslangOperatorToRValueOperator.
HasNoCase(op) ==
    op \notin DOMAIN FixedTag \cup DOMAIN FixedName \cup DOMAIN ConstructorName
              \cup DOMAIN TextureSuffix \cup {"EOpTextureQueryLod"}
\* node is an operator without a case applied to the three operands of the
\* ternary selection.
SameOperands(node, selection) ==
    /\ getAsAggregate(node)
    /\ HasNoCase(node.op)
    /\ getAsSelectionNode(selection)
    /\ has_value(selection.falseBlock)
    /\ node.sequence
          = <<selection.condition, selection.trueBlock, value(selection.falseBlock)>>

\* C30: an operator without a case applied to (c, a, b) never gets the
\* RValueId that the ternary c ? a : b over the same operands gets in the
\* same tables.
C30_PlaceholderIsNoTernary ==
    \A i, j \in LoweredBy("slurpValue") :
        SameOperands(lowered[i].node, lowered[j].node)
            => lowered[i].v # lowered[j].v


=============================================================================
